---------------------------- MODULE Spec2Model ----------------------------
(***************************************************************************)
(* Model of the Stack Overflow MCP server (class StackOverflowServer):     *)
(* the sliding-window rate limiter (checkRateLimit), the throttled invoker *)
(* (withRateLimit), the read operations and the aggregation loop, the      *)
(* write handlers with their precondition checks, and the tool dispatcher. *)
(* One action per step between two await points of the code.               *)
(***************************************************************************)
EXTENDS Integers, Sequences, FiniteSets, TLC

\* ------------------------------------------------------------------ constants

MAX_REQUESTS_PER_WINDOW == 30

RATE_LIMIT_WINDOW_MS == 60000

RETRY_AFTER_MS == 2000

\* default value of the parameter `retries` of withRateLimit
DefaultRetries == 3

\* if (... || input.triedApproaches.length < 3)
MIN_TRIED_APPROACHES == 3

\* handlePostQuestion: limit: 3
DUPLICATE_SEARCH_LIMIT == 3

\* ------------------------------------------------------------------ bounds

\* the longest sequence of results handed to formatResponse on its own
MaxResults == 2

\* clock advances the environment makes in the limiter specification
MaxAdvances == 2

\* length of the scripts of outcomes of the operation handed to withRateLimit
MaxScript == 4

\* rejections with a 429 signal the network produces in one tool invocation
MaxRejects429 == 1

\* ------------------------------------------------------------------ state

VARIABLES
  now,                \* Date.now(), in milliseconds
  requestTimestamps,  \* this.requestTimestamps
  granted,            \* history: the instants at which checkRateLimit returned true
  lastCheck,          \* history: the last checkRateLimit call, [kept, result]
  advances,           \* history: number of clock advances made by the environment
  apiKey,             \* this.apiKey is set (process.env.STACKOVERFLOW_API_KEY)
  accessToken,        \* this.accessToken is set (process.env.STACKOVERFLOW_ACCESS_TOKEN)
  inv                 \* the invocations in progress: one record per flow

limiterVars == <<requestTimestamps, granted, lastCheck>>

credVars == <<apiKey, accessToken>>

vars == <<now, requestTimestamps, granted, lastCheck, advances, apiKey, accessToken, inv>>

\* the flows of control that may be active at the same time
Flows == {1, 2}

\* ------------------------------------------------------------------ rate limiter

\* requestTimestamps.filter((timestamp) => now - timestamp < RATE_LIMIT_WINDOW_MS)
InWindow(t, timestamp) == t - timestamp < RATE_LIMIT_WINDOW_MS

FilterWindow(stamps, t) == SelectSeq(stamps, LAMBDA timestamp : InWindow(t, timestamp))

\* mutant: the ceiling compared with > instead of >=
CheckRateLimitResult_OffByOne(stamps, t) ==
  ~ (Len(FilterWindow(stamps, t)) > MAX_REQUESTS_PER_WINDOW)

\* the value checkRateLimit returns when called at instant t
CheckRateLimitResult(stamps, t) ==
  ~ (Len(FilterWindow(stamps, t)) >= MAX_REQUESTS_PER_WINDOW)

\* mutant: a permit is not recorded
CheckRateLimitStamps_ForgetsPermit(stamps, t) == FilterWindow(stamps, t)

\* mutant: a denied call is recorded as well
CheckRateLimitStamps_RecordsDenial(stamps, t) == Append(FilterWindow(stamps, t), t)

\* this.requestTimestamps after checkRateLimit was called at instant t
CheckRateLimitStamps(stamps, t) ==
  IF CheckRateLimitResult(stamps, t)
    THEN Append(FilterWindow(stamps, t), t)
    ELSE FilterWindow(stamps, t)

\* the effect of one checkRateLimit() call on the limiter and its history
CheckRateLimit ==
  /\ requestTimestamps' = CheckRateLimitStamps(requestTimestamps, now)
  /\ granted' = IF CheckRateLimitResult(requestTimestamps, now)
                  THEN Append(granted, now) ELSE granted
  /\ lastCheck' = [kept |-> Len(FilterWindow(requestTimestamps, now)),
                   result |-> CheckRateLimitResult(requestTimestamps, now)]

\* ------------------------------------------------------------------ values

\* what a rejected promise carries: an Error (instanceof Error) or a plain
\* object, whether its message contains "429", and its status property (0: none)
NetworkError == [name |-> "TypeError: fetch failed", isError |-> TRUE, msg429 |-> FALSE, status |-> 0]

Error429Message == [name |-> "Error: 429 Too Many Requests", isError |-> TRUE, msg429 |-> TRUE, status |-> 0]

Object429Status == [name |-> "{status: 429}", isError |-> FALSE, msg429 |-> FALSE, status |-> 429]

Object500Status == [name |-> "{status: 500}", isError |-> FALSE, msg429 |-> FALSE, status |-> 500]

NoCause == [name |-> "none", isError |-> FALSE, msg429 |-> FALSE, status |-> 0]

NoApi == [error_id |-> 0, error_message |-> ""]

\* new McpError(code, text): api is the remote error payload quoted in the
\* message, cause the error whose message is quoted in it
McpError(code, text, api, cause) ==
  [type |-> "McpError", code |-> code, text |-> text, api |-> api, cause |-> cause]

\* an error that is thrown on as it was caught
RawError(e) == [type |-> "raw", code |-> "none", text |-> e.name, api |-> NoApi, cause |-> e]

NoError == [type |-> "none", code |-> "none", text |-> "", api |-> NoApi, cause |-> NoCause]

NoOutcome == [kind |-> "none", err |-> NoError, text |-> "", results |-> <<>>]

\* a fetch Response: ok, status, and the parsed body: items (when the body has
\* them) or the error payload
Response(ok, status, hasItems, items, api) ==
  [ok |-> ok, status |-> status, hasItems |-> hasItems, items |-> items, api |-> api]

NoResponse == Response(FALSE, 0, FALSE, <<>>, NoApi)

NoSettled == [k |-> "none", value |-> "", resp |-> NoResponse, err |-> NoCause]

\* request.params.arguments is missing
NoArguments == [none |-> TRUE]

NoOptions == [minScore |-> [set |-> FALSE, v |-> 0], limit |-> 0, includeComments |-> FALSE]

\* a JavaScript value that JSON can carry, as a tree: a number, a string, a
\* boolean, an array (kids with empty keys) or an object (kids in key order)
JsNode(t, n, s, kids) == [t |-> t, n |-> n, s |-> s, kids |-> kids]

NoValue == JsNode("none", 0, "", <<>>)

\* the text formatResponse returns: the tokens of a JSON text or the lines of
\* a markdown text
NoText == [kind |-> "none", tokens |-> <<>>, lines |-> <<>>]

\* the record of a flow that runs no invocation
IdleFlow ==
  [tool |-> "none", pc |-> "idle", site |-> "none", phase |-> "none",
   retries |-> 0, wakeAt |-> 0, script |-> <<>>, outcome |-> NoOutcome,
   args |-> NoArguments,
   \* whether searchStackOverflow was called, and its arguments query and tags
   searched |-> FALSE, query |-> "", tags |-> [kind |-> "undefined", list |-> <<>>],
   \* locals of searchStackOverflow / handleSearchByTags
   opts |-> NoOptions, items |-> <<>>, qi |-> 0, answers |-> <<>>, ai |-> 0,
   qcomments |-> <<>>, amap |-> <<>>, results |-> <<>>,
   \* the place of the timer of the flow among the timers due at its instant
   turn |-> 0,
   \* history of the invocation
   attempts |-> 0, denials |-> 0, localWaits |-> 0, remoteWaits |-> 0,
   checks |-> 0, permits |-> 0, rejects429 |-> 0, reqs |-> <<>>,
   last |-> NoSettled, lastRetries |-> 0,
   \* formatResponse on its own: its format argument, its text, the text parsed
   format |-> "absent", body |-> NoText, parsed |-> NoValue]

\* ------------------------------------------------------------------ withRateLimit

\* mutant: every Error counts as a 429 signal
Is429Signal_AnyError(e) == e.isError \/ e.status = 429

\* the condition of the catch clause of withRateLimit, without `retries > 0`
Is429Signal(e) ==
  \/ (e.isError /\ e.msg429)
  \/ e.status = 429

\* mutant: the last retry of the budget is never made
RetriesOn_StopsEarly(retries, e) == retries > 1 /\ Is429Signal(e)

\* mutant: the budget is not consulted
RetriesOn_Unbounded(retries, e) == Is429Signal(e)

\* retries > 0 && (429 signal): the rejected call is tried again
RetriesOn(retries, e) == retries > 0 /\ Is429Signal(e)

\* mutant: a denial costs one retry
RetriesAfterDenial_Counts(retries) == retries - 1

\* the budget handed to the recursive call after a denial by the limiter
RetriesAfterDenial(retries) == retries

\* the budget handed to the recursive call after a 429 signal
RetriesAfter429(retries) == retries - 1

\* withRateLimit(fn) is entered with the default budget
StartCall(fl, site) ==
  [fl EXCEPT !.pc = "call", !.site = site, !.phase = "check",
             !.retries = DefaultRetries, !.attempts = 0, !.denials = 0,
             !.localWaits = 0, !.remoteWaits = 0]

\* the invocation ends with an error thrown to its caller
Fail(fl, e) ==
  [fl EXCEPT !.pc = "done", !.site = "none", !.phase = "none",
             !.outcome = [kind |-> "error", err |-> e, text |-> "", results |-> <<>>]]

\* the invocation ends with a value returned to its caller
Succeed(fl, text, results) ==
  [fl EXCEPT !.pc = "done", !.site = "none", !.phase = "none",
             !.outcome = [kind |-> "result", err |-> NoError, text |-> text,
                          results |-> results]]

\* the outcome of the n-th execution of a scripted operation
OpOutcome(script, n) == IF n <= Len(script) THEN script[n] ELSE script[Len(script)]

OpResolve == [k |-> "resolve", value |-> "success", resp |-> NoResponse, err |-> NoCause]

OpReject(e) == [k |-> "reject", value |-> "", resp |-> NoResponse, err |-> e]

OpOutcomes == {OpResolve} \cup
  {OpReject(e) : e \in {NetworkError, Error429Message, Object429Status, Object500Status}}

Scripts == [1..MaxScript -> OpOutcomes]

\* ------------------------------------------------------------------ remote data

\* the title of the question of an id
TitleOf(id) ==
  IF id = 1 THEN "How to test?"
  ELSE IF id = 2 THEN "Why does it fail?"
  ELSE "What is this error?"

\* the questions, answers and comments the remote service holds
Question(id, score, answer_count, accepted_answer_id) ==
  [question_id |-> id, title |-> TitleOf(id), score |-> score,
   answer_count |-> answer_count, accepted_answer_id |-> accepted_answer_id]

Answer(id, question_id, score, is_accepted) ==
  [answer_id |-> id, question_id |-> question_id, score |-> score,
   is_accepted |-> is_accepted]

Comment(id, post_id, score) == [comment_id |-> id, post_id |-> post_id, score |-> score]

\* accepted_answer_id 0: the question has no accepted answer (the field is absent)
RemoteQuestions ==
  { Question(1, 7, 2, 11), Question(2, -1, 0, 0), Question(3, 3, 1, 0) }

QuestionById(id) == {q \in RemoteQuestions : q.question_id = id}

\* the answers that invocations of post_solution have added to a question:
\* the remote service adds one with every POST it answers with success
PostedAnswers(id) ==
  Cardinality({f \in Flows :
                 /\ inv[f].tool = "post_solution"
                 /\ inv[f].pc = "done"
                 /\ inv[f].outcome.kind = "result"
                 /\ inv[f].args.questionId = id})

\* GET /questions/{id}: the items of the response
QuestionItems(id) ==
  IF QuestionById(id) = {} THEN <<>>
  ELSE <<[(CHOOSE q \in QuestionById(id) : TRUE)
            EXCEPT !.answer_count = @ + PostedAnswers(id)]>>

\* GET /questions/{id}/answers, sorted by votes: the items of the response
AnswerItems(id) ==
  IF id = 1 THEN <<Answer(11, 1, 5, TRUE), Answer(12, 1, 2, FALSE)>>
  ELSE IF id = 3 THEN <<Answer(31, 3, 0, FALSE)>>
  ELSE <<>>

\* GET /posts/{id}/comments: the items of the response
CommentItems(id) ==
  IF id = 1 THEN <<Comment(101, 1, 1)>>
  ELSE IF id = 11 THEN <<Comment(111, 11, 4), Comment(112, 11, 0)>>
  ELSE <<>>

\* GET /search/advanced and GET /questions, sorted by votes: the item lists
\* the remote service may answer with
SearchItemLists ==
  { <<>>,
    <<Question(2, -1, 0, 0)>>,
    <<Question(3, 3, 1, 0), Question(2, -1, 0, 0)>>,
    <<Question(1, 7, 2, 11), Question(3, 3, 1, 0), Question(2, -1, 0, 0)>> }

\* the error payloads of non-success responses, with their HTTP status
ErrorResponses ==
  { Response(FALSE, 400, FALSE, <<>>, [error_id |-> 400, error_message |-> "bad_parameter"]),
    Response(FALSE, 429, FALSE, <<>>, [error_id |-> 502, error_message |-> "too many requests"]) }

\* ------------------------------------------------------------------ tools

ReadTools == {"search_by_error", "search_by_tags", "analyze_stack_trace"}

WriteTools == {"post_question", "post_solution", "thumbs_up", "comment_solution"}

ToolNames == ReadTools \cup WriteTools

\* mutant: the API key alone gives write access
EnsureWriteAccess_KeyOnly == apiKey

\* mutant: the check is left out
EnsureWriteAccess_Skipped == TRUE

\* ensureWriteAccess() returns without throwing
EnsureWriteAccess == ~ (~ apiKey \/ ~ accessToken)

WriteAccessError ==
  McpError("InvalidRequest",
           "Write operations require STACKOVERFLOW_API_KEY and STACKOVERFLOW_ACCESS_TOKEN",
           NoApi, NoCause)

\* this.ensureWriteAccess(); ... await this.withRateLimit(() => fetch(..., POST))
EnsureThenWrite(fl) ==
  IF EnsureWriteAccess THEN StartCall(fl, "write") ELSE Fail(fl, WriteAccessError)

\* options.minScore && question.score < options.minScore
Skipped(question, opts) ==
  (opts.minScore.set /\ opts.minScore.v # 0) /\ question.score < opts.minScore.v

\* the index of the first question from i on that the loop does not skip
RECURSIVE NextKept(_, _, _)
NextKept(items, i, opts) ==
  IF i > Len(items) THEN i
  ELSE IF Skipped(items[i], opts) THEN NextKept(items, i + 1, opts)
  ELSE i

\* the index of the first answer from i on that has an answer_id
RECURSIVE NextAnswer(_, _)
NextAnswer(answers, i) ==
  IF i > Len(answers) THEN i
  ELSE IF answers[i].answer_id = 0 THEN NextAnswer(answers, i + 1)
  ELSE i

\* mutant: the comments of the answers are left out of the bundle
Composite_NoAnswerComments(fl) ==
  [question |-> fl.items[fl.qi], answers |-> fl.answers,
   hasComments |-> fl.opts.includeComments,
   comments |-> [question |-> fl.qcomments, answers |-> <<>>]]

\* mutant: every result carries a comments bundle
Composite_AlwaysComments(fl) ==
  [question |-> fl.items[fl.qi], answers |-> fl.answers,
   hasComments |-> TRUE,
   comments |-> [question |-> fl.qcomments, answers |-> fl.amap]]

\* { question, answers, ...(includeComments && { comments }) }
Composite(fl) ==
  [question |-> fl.items[fl.qi], answers |-> fl.answers,
   hasComments |-> fl.opts.includeComments,
   comments |-> [question |-> fl.qcomments, answers |-> fl.amap]]

\* mutant: the result of the duplicate search is not looked at
Aggregated_PostsAnyway(fl) ==
  IF fl.tool = "post_question"
    THEN EnsureThenWrite(fl)
    ELSE Succeed(fl, "formatResponse", fl.results)

\* the loop over the questions has ended: what the handler does with results
Aggregated(fl) ==
  IF fl.tool = "post_question"
    THEN IF Len(fl.results) > 0
           THEN Fail(fl, McpError("InvalidRequest",
                  "Refusing to post: similar questions already exist for the provided errorSignature",
                  NoApi, NoCause))
           ELSE EnsureThenWrite(fl)
    ELSE Succeed(fl, "formatResponse", fl.results)

\* for (const question of data.items): from index i to the next awaited fetch
QuestionLoop(fl, i) ==
  LET j == NextKept(fl.items, i, fl.opts) IN
    IF j > Len(fl.items)
      THEN Aggregated([fl EXCEPT !.qi = j])
      ELSE StartCall([fl EXCEPT !.qi = j, !.answers = <<>>, !.ai = 0,
                                !.qcomments = <<>>, !.amap = <<>>], "answers")

\* mutant: the result is put in front of the earlier ones
PushResult_Prepends(fl) ==
  QuestionLoop([fl EXCEPT !.results = <<Composite(fl)>> \o @], fl.qi + 1)

\* results.push(...) and the next round of the loop over the questions
PushResult(fl) ==
  QuestionLoop([fl EXCEPT !.results = Append(@, Composite(fl))], fl.qi + 1)

\* mutant: only the comments of the first answer are fetched
AnswerLoop_FirstOnly(fl, i) ==
  LET j == NextAnswer(fl.answers, i) IN
    IF j > Len(fl.answers) \/ j > 1
      THEN PushResult([fl EXCEPT !.ai = j])
      ELSE StartCall([fl EXCEPT !.ai = j], "acomments")

\* for (const answer of answers): from index i to the next awaited fetch
AnswerLoop(fl, i) ==
  LET j == NextAnswer(fl.answers, i) IN
    IF j > Len(fl.answers)
      THEN PushResult([fl EXCEPT !.ai = j])
      ELSE StartCall([fl EXCEPT !.ai = j], "acomments")

\* data.items || []
ItemsOrEmpty(resp) == IF resp.hasItems THEN resp.items ELSE <<>>

\* mutant: the message of the error does not quote the remote payload
ApiError_Generic(prefix, resp) == McpError("InvalidRequest", prefix, NoApi, NoCause)

\* if (!response.ok) throw new McpError(InvalidRequest, `${prefix}: ${error_message} (${error_id})`)
ApiError(prefix, resp) == McpError("InvalidRequest", prefix, resp.api, NoCause)

\* the prefix of the message of a non-success response, by call site and tool
ApiErrorPrefix(fl) ==
  IF fl.site # "write" THEN "Stack Overflow API error"
  ELSE IF fl.tool = "post_question" THEN "Failed to post question"
  ELSE IF fl.tool = "post_solution" THEN "Failed to post answer"
  ELSE IF fl.tool = "thumbs_up" THEN "Failed to upvote"
  ELSE "Failed to post comment"

\* the text of the result of a write handler
WrittenText(fl) ==
  IF fl.tool = "post_question" THEN "Question posted successfully"
  ELSE IF fl.tool = "post_solution" THEN "Answer posted successfully"
  ELSE IF fl.tool = "thumbs_up" THEN "Upvote submitted successfully"
  ELSE "Comment posted successfully"

\* mutant: post_solution looks at the accepted answer only
QuestionFetched_IgnoresAnswerCount(fl, resp) ==
  LET items == ItemsOrEmpty(resp) IN
    IF Len(items) = 0
      THEN Fail(fl, McpError("InvalidRequest", "Question not found", NoApi, NoCause))
    ELSE IF items[1].accepted_answer_id # 0
      THEN Fail(fl, McpError("InvalidRequest",
             "Refusing to comment: question already has an accepted answer",
             NoApi, NoCause))
      ELSE EnsureThenWrite(fl)

\* mutant: comment_solution does not look at the accepted answer
QuestionFetched_IgnoresAccepted(fl, resp) ==
  LET items == ItemsOrEmpty(resp) IN
    IF Len(items) = 0
      THEN Fail(fl, McpError("InvalidRequest", "Question not found", NoApi, NoCause))
    ELSE IF fl.tool = "post_solution"
      THEN IF items[1].accepted_answer_id # 0 \/ items[1].answer_count > 0
             THEN Fail(fl, McpError("InvalidRequest",
                    "Refusing to post: the question already has answers (or an accepted one)",
                    NoApi, NoCause))
             ELSE EnsureThenWrite(fl)
      ELSE EnsureThenWrite(fl)

\* handlePostSolution and handleCommentSolution after fetchQuestion returned
QuestionFetched(fl, resp) ==
  LET items == ItemsOrEmpty(resp) IN
    IF Len(items) = 0
      THEN Fail(fl, McpError("InvalidRequest", "Question not found", NoApi, NoCause))
    ELSE IF fl.tool = "post_solution"
      THEN IF items[1].accepted_answer_id # 0 \/ items[1].answer_count > 0
             THEN Fail(fl, McpError("InvalidRequest",
                    "Refusing to post: the question already has answers (or an accepted one)",
                    NoApi, NoCause))
             ELSE EnsureThenWrite(fl)
      ELSE IF items[1].accepted_answer_id # 0
             THEN Fail(fl, McpError("InvalidRequest",
                    "Refusing to comment: question already has an accepted answer",
                    NoApi, NoCause))
             ELSE EnsureThenWrite(fl)

\* what the caller of withRateLimit does with the value it returned
Continue(fl, o) ==
  IF fl.site = "op" THEN Succeed(fl, o.value, <<>>)
  ELSE IF ~ o.resp.ok THEN Fail(fl, ApiError(ApiErrorPrefix(fl), o.resp))
  ELSE IF fl.site \in {"search", "tagsearch"}
    THEN IF o.resp.hasItems
           THEN QuestionLoop([fl EXCEPT !.items = o.resp.items, !.results = <<>>], 1)
           \* data.items is not iterable: the TypeError is caught and wrapped
           ELSE Fail(fl, McpError("InternalError", "Failed to search Stack Overflow",
                                  NoApi, NoCause))
  ELSE IF fl.site = "answers"
    THEN IF fl.opts.includeComments
           THEN StartCall([fl EXCEPT !.answers = ItemsOrEmpty(o.resp)], "qcomments")
           ELSE PushResult([fl EXCEPT !.answers = ItemsOrEmpty(o.resp)])
  ELSE IF fl.site = "qcomments"
    THEN AnswerLoop([fl EXCEPT !.qcomments = ItemsOrEmpty(o.resp)], 1)
  ELSE IF fl.site = "acomments"
    THEN AnswerLoop([fl EXCEPT !.amap =
                       (fl.answers[fl.ai].answer_id :> ItemsOrEmpty(o.resp)) @@ @],
                    fl.ai + 1)
  ELSE IF fl.site = "question" THEN QuestionFetched(fl, o.resp)
  ELSE Succeed(fl, WrittenText(fl), <<>>)

\* mutant: a failed fetch of answers or comments ends the aggregation with
\* the results composed so far
Thrown_ReturnsPartial(fl, e) ==
  IF fl.site \in {"search", "tagsearch"}
    THEN Fail(fl, McpError("InternalError", "Failed to search Stack Overflow", NoApi, e))
  ELSE IF fl.site \in {"answers", "qcomments", "acomments"}
    THEN Succeed(fl, "formatResponse", fl.results)
  ELSE Fail(fl, RawError(e))

\* mutant: a write handler goes on when its fetch of the question failed
Thrown_WritesAnyway(fl, e) ==
  IF fl.site \in {"search", "tagsearch"}
    THEN Fail(fl, McpError("InternalError", "Failed to search Stack Overflow", NoApi, e))
  ELSE IF fl.site = "answers"
    THEN Fail(fl, McpError("InternalError", "Failed to fetch answers", NoApi, e))
  ELSE IF fl.site \in {"qcomments", "acomments"}
    THEN Fail(fl, McpError("InternalError", "Failed to fetch comments", NoApi, e))
  ELSE IF fl.site = "question" THEN EnsureThenWrite(fl)
  ELSE Fail(fl, RawError(e))

\* what becomes of an error withRateLimit threw to its caller: the read
\* operations of the aggregation wrap it, fetchQuestion and the write
\* handlers have no catch clause
Thrown(fl, e) ==
  IF fl.site \in {"search", "tagsearch"}
    THEN Fail(fl, McpError("InternalError", "Failed to search Stack Overflow", NoApi, e))
  ELSE IF fl.site = "answers"
    THEN Fail(fl, McpError("InternalError", "Failed to fetch answers", NoApi, e))
  ELSE IF fl.site \in {"qcomments", "acomments"}
    THEN Fail(fl, McpError("InternalError", "Failed to fetch comments", NoApi, e))
  ELSE Fail(fl, RawError(e))

\* the id in the URL of the request of a call site
Target(fl) ==
  IF fl.site \in {"answers", "qcomments"} THEN fl.items[fl.qi].question_id
  ELSE IF fl.site = "acomments" THEN fl.answers[fl.ai].answer_id
  ELSE IF fl.site = "question" THEN fl.args.questionId
  ELSE IF fl.site = "write" /\ fl.tool \in {"post_solution", "comment_solution"}
    THEN fl.args.questionId
  ELSE IF fl.site = "write" /\ fl.tool = "thumbs_up" THEN fl.args.postId
  ELSE 0

\* the request fetch() sends for a call site
Request(fl) ==
  [site |-> fl.site, method |-> IF fl.site = "write" THEN "POST" ELSE "GET",
   tool |-> fl.tool, target |-> Target(fl), at |-> now]

\* the items of a success response to the request of a call site
OkItems(fl) ==
  IF fl.site \in {"search", "tagsearch"} THEN SearchItemLists
  ELSE IF fl.site = "answers" THEN {AnswerItems(Target(fl))}
  ELSE IF fl.site \in {"qcomments", "acomments"} THEN {CommentItems(Target(fl))}
  ELSE IF fl.site = "question" THEN {QuestionItems(Target(fl))}
  ELSE {<<>>}

\* the ways the fetch() of a call site can settle
HttpOutcomes(fl) ==
  {[k |-> "resolve", value |-> "", resp |-> Response(TRUE, 200, TRUE, items, NoApi),
    err |-> NoCause] : items \in OkItems(fl)}
  \cup {[k |-> "resolve", value |-> "", resp |-> Response(TRUE, 200, FALSE, <<>>, NoApi),
         err |-> NoCause]}
  \cup {[k |-> "resolve", value |-> "", resp |-> r, err |-> NoCause] : r \in ErrorResponses}
  \cup {OpReject(e) : e \in {NetworkError} \cup
          (IF fl.rejects429 < MaxRejects429
             THEN {Error429Message, Object429Status} ELSE {})}

\* the outcomes the awaited fn() of a flow can have
Outcomes(fl) ==
  IF fl.site = "op" THEN {OpOutcome(fl.script, fl.attempts)} ELSE HttpOutcomes(fl)

\* mutant: the retry runs the operation without consulting the limiter
Recurse_SkipsCheck(fl, retries) ==
  [fl EXCEPT !.phase = "inflight", !.retries = retries, !.attempts = @ + 1,
             !.reqs = IF fl.site = "op" THEN @ ELSE Append(@, Request(fl))]

\* return this.withRateLimit(fn, retries)
Recurse(fl, retries) == [fl EXCEPT !.phase = "check", !.retries = retries]

\* mutant: the operation is started twice
RunFn_Twice(fl) ==
  [fl EXCEPT !.phase = "inflight", !.attempts = @ + 2,
             !.reqs = IF fl.site = "op" THEN @ ELSE Append(@, Request(fl))]

\* return await fn(): the operation is started; a fetch sends its request
RunFn(fl) ==
  [fl EXCEPT !.phase = "inflight", !.attempts = @ + 1,
             !.reqs = IF fl.site = "op" THEN @ ELSE Append(@, Request(fl))]

\* the flow after checkRateLimit() returned: the wait is begun, or the
\* operation is started
Checked(fl, permitted) ==
  IF permitted
    THEN RunFn([fl EXCEPT !.checks = @ + 1, !.permits = @ + 1])
    ELSE [fl EXCEPT !.phase = "sleepLocal", !.denials = @ + 1, !.checks = @ + 1,
                    !.wakeAt = now + RETRY_AFTER_MS]

\* if (!this.checkRateLimit()) { await setTimeout(RETRY_AFTER_MS) ... }
\* else the operation is started: return await fn()
RateCheck(f) ==
  /\ inv[f].pc = "call" /\ inv[f].phase = "check"
  /\ CheckRateLimit
  /\ inv' = [inv EXCEPT ![f] = Checked(@, CheckRateLimitResult(requestTimestamps, now))]
  /\ UNCHANGED <<now, advances, credVars>>

\* the setTimeout(resolve, RETRY_AFTER_MS) of either branch fires and
\* withRateLimit calls itself: with `retries` after a denial, with
\* `retries - 1` after a 429 signal
TimerFires(f) ==
  /\ inv[f].pc = "call" /\ inv[f].phase \in {"sleepLocal", "sleep429"}
  /\ now' = IF now < inv[f].wakeAt THEN inv[f].wakeAt ELSE now
  /\ inv' = [inv EXCEPT ![f] =
       IF inv[f].phase = "sleepLocal"
         THEN Recurse([@ EXCEPT !.localWaits = @ + 1], RetriesAfterDenial(@.retries))
         ELSE Recurse([@ EXCEPT !.remoteWaits = @ + 1], RetriesAfter429(@.retries))]
  /\ UNCHANGED <<limiterVars, advances, credVars>>

\* the awaited fn() settles: its value is returned to the caller, or the catch
\* clause of withRateLimit decides between a retry and throwing the error on
Settle(f) ==
  /\ inv[f].pc = "call" /\ inv[f].phase = "inflight"
  /\ \E o \in Outcomes(inv[f]) :
       LET fl == [inv[f] EXCEPT !.last = o, !.lastRetries = inv[f].retries,
                                !.rejects429 = IF o.k = "reject" /\ Is429Signal(o.err)
                                                 THEN @ + 1 ELSE @]
       IN inv' = [inv EXCEPT ![f] =
            IF o.k = "resolve" THEN Continue(fl, o)
            ELSE IF RetriesOn(fl.retries, o.err)
              THEN [fl EXCEPT !.phase = "sleep429", !.wakeAt = now + RETRY_AFTER_MS]
              ELSE Thrown(fl, o.err)]
  /\ UNCHANGED <<now, limiterVars, advances, credVars>>

\* ------------------------------------------------------------------ invoker alone

\* 30 calls permitted at instant 0: the state of the limiter 58 s later
FullWindow == [i \in 1..MAX_REQUESTS_PER_WINDOW |-> 0]

\* 29 calls permitted at instant 0
NearlyFullWindow == [i \in 1..(MAX_REQUESTS_PER_WINDOW - 1) |-> 0]

\* the limiter as earlier invocations can have left it: idle, or with a full
\* or nearly full window of which the entries expire within two backoff waits
InitLimiterStates ==
  { [now |-> 0, stamps |-> <<>>],
    [now |-> RATE_LIMIT_WINDOW_MS - RETRY_AFTER_MS, stamps |-> FullWindow],
    [now |-> RATE_LIMIT_WINDOW_MS - 2 * RETRY_AFTER_MS + 1, stamps |-> FullWindow],
    [now |-> RATE_LIMIT_WINDOW_MS - 2 * RETRY_AFTER_MS + 1, stamps |-> NearlyFullWindow] }

InitInvoker ==
  /\ \E l \in InitLimiterStates :
       /\ now = l.now
       /\ requestTimestamps = l.stamps
  /\ granted = <<>>
  /\ lastCheck = [kept |-> 0, result |-> TRUE]
  /\ advances = 0
  /\ apiKey = FALSE
  /\ accessToken = FALSE
  /\ inv = [f \in Flows |-> IdleFlow]

\* withRateLimit(op) is called with an operation of some scripted behaviour
CallWithRateLimit(f) ==
  /\ inv[f].pc = "idle"
  /\ \E sc \in Scripts :
       inv' = [inv EXCEPT ![f] = StartCall([@ EXCEPT !.tool = "op", !.script = sc], "op")]
  /\ UNCHANGED <<now, limiterVars, advances, credVars>>

NextInvoker ==
  \/ CallWithRateLimit(1)
  \/ RateCheck(1)
  \/ TimerFires(1)
  \/ Settle(1)

SpecInvoker == InitInvoker /\ [][NextInvoker]_vars

\* ------------------------------------------------------------------ dispatcher

InvalidParams(text) == McpError("InvalidParams", text, NoApi, NoCause)

\* the arguments a client may send; "" stands for a missing or empty string,
\* 0 for a missing id, "absent" for a missing array or a missing boolean
MinScores == {[set |-> FALSE, v |-> 0], [set |-> TRUE, v |-> 0], [set |-> TRUE, v |-> 2]}

\* a limit argument: 0 when it is missing
Limits == {0, 5}

\* a technologies argument
Technologies ==
  { [kind |-> "absent", list |-> <<>>], [kind |-> "array", list |-> <<>>],
    [kind |-> "array", list |-> <<"React", "Jest">>] }

\* the calls of search_by_error, with every optional argument
SearchByErrorInputs ==
  [errorMessage : {"", "E"}, language : {"", "JS", "js"}, technologies : Technologies,
   minScore : MinScores, includeComments : BOOLEAN, limit : Limits]

\* the calls of search_by_error that the server as a whole is run with
SearchByErrorArgs ==
  {a \in SearchByErrorInputs :
     a.language = "" /\ a.technologies.kind = "absent" /\ a.limit = 0}

\* the calls of search_by_tags, with every optional argument
SearchByTagsInputs ==
  {a \in [tagsKind : {"absent", "array"}, tags : {<<>>, <<"typescript", "jest">>},
          minScore : MinScores, includeComments : BOOLEAN, limit : Limits] :
     a.tagsKind = "absent" => a.tags = <<>>}

SearchByTagsArgs == {a \in SearchByTagsInputs : a.tags = <<>> /\ a.limit = 0}

\* a stack trace is the sequence of its lines; <<>> stands for a missing or
\* empty string
StackTraces ==
  { <<>>, <<"Error: boom">>, <<"Error: boom", "  at f (a.js:1:1)">>,
    <<"", "  at f (a.js:1:1)">> }

\* the calls of analyze_stack_trace, with every optional argument
StackTraceInputs ==
  [stackTrace : StackTraces, language : {"", "JS", "js"}, includeComments : BOOLEAN,
   limit : Limits]

StackTraceArgs ==
  {a \in StackTraceInputs :
     /\ a.stackTrace \in {<<>>, <<"Error: boom", "  at f (a.js:1:1)">>}
     /\ a.language \in {"", "JS"}
     /\ a.limit = 0}

TriedApproaches ==
  { [kind |-> "absent", list |-> <<>>], [kind |-> "string", list |-> <<>>],
    [kind |-> "array", list |-> <<>>],
    [kind |-> "array", list |-> <<"a", "b">>],
    [kind |-> "array", list |-> <<"a", "a", "a">>],
    [kind |-> "array", list |-> <<"a", "b", "c">>],
    [kind |-> "array", list |-> <<"a", "b", "c", "d">>] }

PostQuestionArgs ==
  [title : {"", "T"}, body : {"", "B"}, errorSignature : {"", "S"},
   tagsKind : {"absent", "array"}, triedApproaches : TriedApproaches]

Evidence ==
  { [kind |-> "absent", list |-> <<>>], [kind |-> "array", list |-> <<>>],
    [kind |-> "array", list |-> <<"test log">>] }

\* a boolean argument as the client sent it
Flags == {"absent", "false", "true"}

\* !flag is false: of the values a boolean argument takes only true is truthy
Truthy(flag) == flag = "true"

PostSolutionArgs ==
  [questionId : {0, 1, 2, 3, 9}, body : {"", "B"}, confirmedResolved : Flags,
   evidence : Evidence]

ThumbsUpArgs == [postId : {0, 11}, confirmedFixed : Flags]

CommentSolutionArgs == [questionId : {0, 1, 2, 3, 9}, body : {"", "B"}]

\* the handler is entered with its arguments
Begin(fl, tool, args) == [fl EXCEPT !.tool = tool, !.args = args]

\* searchStackOverflow(query, tags, options) up to its first fetch
SearchStackOverflow(fl, query, tags, opts) ==
  StartCall([fl EXCEPT !.searched = TRUE, !.query = query, !.tags = tags, !.opts = opts],
            "search")

\* language.toLowerCase()
LowerCase(str) == IF str = "JS" THEN "js" ELSE str

\* a tags argument of searchStackOverflow
TagList(list) == [kind |-> "array", list |-> list]

NoTags == [kind |-> "undefined", list |-> <<>>]

\* mutant: the technologies come before the language
ErrorTags_TechnologiesFirst(args) ==
  (IF args.technologies.kind = "array" THEN args.technologies.list ELSE <<>>)
  \o (IF args.language # "" THEN <<LowerCase(args.language)>> ELSE <<>>)

\* [...(args.language ? [args.language.toLowerCase()] : []), ...(args.technologies || [])]
ErrorTags(args) ==
  (IF args.language # "" THEN <<LowerCase(args.language)>> ELSE <<>>)
  \o (IF args.technologies.kind = "array" THEN args.technologies.list ELSE <<>>)

\* case "search_by_error" and handleSearchByError
SearchByError(fl) ==
  IF fl.args.errorMessage = ""
    THEN Fail(fl, InvalidParams("errorMessage is required"))
    ELSE SearchStackOverflow(fl, fl.args.errorMessage,
           IF Len(ErrorTags(fl.args)) > 0 THEN TagList(ErrorTags(fl.args)) ELSE NoTags,
           [minScore |-> fl.args.minScore, limit |-> fl.args.limit,
            includeComments |-> fl.args.includeComments])

\* case "search_by_tags" and handleSearchByTags up to its first fetch
SearchByTags(fl) ==
  IF fl.args.tagsKind = "absent"
    THEN Fail(fl, InvalidParams("tags are required"))
    ELSE StartCall([fl EXCEPT !.opts = [minScore |-> fl.args.minScore,
                                        limit |-> fl.args.limit,
                                        includeComments |-> fl.args.includeComments]],
                   "tagsearch")

\* mutant: the last line of the stack trace is taken
FirstLine_Last(stackTrace) == stackTrace[Len(stackTrace)]

\* args.stackTrace.split("\n")[0]
FirstLine(stackTrace) == stackTrace[1]

\* case "analyze_stack_trace" and handleAnalyzeStackTrace
AnalyzeStackTrace(fl) ==
  IF fl.args.stackTrace = <<>> \/ fl.args.language = ""
    THEN Fail(fl, InvalidParams("stackTrace and language are required"))
    ELSE SearchStackOverflow(fl, FirstLine(fl.args.stackTrace),
           TagList(<<LowerCase(fl.args.language)>>),
           [minScore |-> [set |-> TRUE, v |-> 0], limit |-> fl.args.limit,
            includeComments |-> fl.args.includeComments])

\* mutant: two tried approaches are enough
EnoughApproaches_Two(tried) == ~ (tried.kind # "array" \/ Len(tried.list) < 2)

\* !(!Array.isArray(input.triedApproaches) || input.triedApproaches.length < 3)
EnoughApproaches(tried) ==
  ~ (tried.kind # "array" \/ Len(tried.list) < MIN_TRIED_APPROACHES)

\* case "post_question" and handlePostQuestion up to its first fetch
PostQuestion(fl) ==
  IF \/ fl.args.title = "" \/ fl.args.body = "" \/ fl.args.errorSignature = ""
     \/ fl.args.tagsKind = "absent" \/ fl.args.triedApproaches.kind = "absent"
    THEN Fail(fl, InvalidParams("title, body, tags, errorSignature, triedApproaches are required"))
  ELSE IF ~ EnoughApproaches(fl.args.triedApproaches)
    THEN Fail(fl, InvalidParams("At least 3 triedApproaches are required"))
  \* the tags of post_question are not enumerated: the list stands for them
  ELSE SearchStackOverflow(fl, fl.args.errorSignature, TagList(<<"tag">>),
                           [minScore |-> [set |-> TRUE, v |-> 0],
                            limit |-> DUPLICATE_SEARCH_LIMIT,
                            includeComments |-> FALSE])

\* mutant: an empty evidence list is enough
HasEvidence_EmptyAllowed(evidence) == ~ (evidence.kind # "array")

\* !(!Array.isArray(input.evidence) || input.evidence.length === 0)
HasEvidence(evidence) == ~ (evidence.kind # "array" \/ Len(evidence.list) = 0)

\* case "post_solution" and handlePostSolution up to its first fetch
PostSolution(fl) ==
  IF fl.args.questionId = 0 \/ fl.args.body = ""
    THEN Fail(fl, InvalidParams("questionId and body are required"))
  ELSE IF ~ Truthy(fl.args.confirmedResolved)
    THEN Fail(fl, McpError("InvalidRequest",
                "Refusing to post: confirmedResolved must be true", NoApi, NoCause))
  ELSE IF ~ HasEvidence(fl.args.evidence)
    THEN Fail(fl, InvalidParams("Refusing to post: evidence is required"))
  ELSE StartCall(fl, "question")

\* mutant: confirmedFixed is not looked at
ThumbsUp_Unconfirmed(fl) ==
  IF fl.args.postId = 0
    THEN Fail(fl, InvalidParams("postId is required"))
  ELSE EnsureThenWrite(fl)

\* case "thumbs_up" and handleThumbsUp up to its fetch
ThumbsUp(fl) ==
  IF fl.args.postId = 0
    THEN Fail(fl, InvalidParams("postId is required"))
  ELSE IF ~ Truthy(fl.args.confirmedFixed)
    THEN Fail(fl, McpError("InvalidRequest",
                "Refusing to upvote: confirmedFixed must be true", NoApi, NoCause))
  ELSE EnsureThenWrite(fl)

\* mutant: the comment is posted without a look at the question
CommentSolution_NoStateCheck(fl) ==
  IF fl.args.questionId = 0 \/ fl.args.body = ""
    THEN Fail(fl, InvalidParams("questionId and body are required"))
    ELSE EnsureThenWrite(fl)

\* case "comment_solution" and handleCommentSolution up to its first fetch
CommentSolution(fl) ==
  IF fl.args.questionId = 0 \/ fl.args.body = ""
    THEN Fail(fl, InvalidParams("questionId and body are required"))
    ELSE StartCall(fl, "question")

\* a tools/call request arrives: the case of the switch on the tool's name runs
\* the tool's handler up to its first await
CallSearchByError(f) ==
  /\ inv[f].pc = "idle"
  /\ \E args \in SearchByErrorArgs :
       inv' = [inv EXCEPT ![f] = SearchByError(Begin(@, "search_by_error", args))]
  /\ UNCHANGED <<now, limiterVars, advances, credVars>>

CallSearchByTags(f) ==
  /\ inv[f].pc = "idle"
  /\ \E args \in SearchByTagsArgs :
       inv' = [inv EXCEPT ![f] = SearchByTags(Begin(@, "search_by_tags", args))]
  /\ UNCHANGED <<now, limiterVars, advances, credVars>>

CallAnalyzeStackTrace(f) ==
  /\ inv[f].pc = "idle"
  /\ \E args \in StackTraceArgs :
       inv' = [inv EXCEPT ![f] = AnalyzeStackTrace(Begin(@, "analyze_stack_trace", args))]
  /\ UNCHANGED <<now, limiterVars, advances, credVars>>

CallPostQuestion(f) ==
  /\ inv[f].pc = "idle"
  /\ \E args \in PostQuestionArgs :
       inv' = [inv EXCEPT ![f] = PostQuestion(Begin(@, "post_question", args))]
  /\ UNCHANGED <<now, limiterVars, advances, credVars>>

CallPostSolution(f) ==
  /\ inv[f].pc = "idle"
  /\ \E args \in PostSolutionArgs :
       inv' = [inv EXCEPT ![f] = PostSolution(Begin(@, "post_solution", args))]
  /\ UNCHANGED <<now, limiterVars, advances, credVars>>

CallThumbsUp(f) ==
  /\ inv[f].pc = "idle"
  /\ \E args \in ThumbsUpArgs :
       inv' = [inv EXCEPT ![f] = ThumbsUp(Begin(@, "thumbs_up", args))]
  /\ UNCHANGED <<now, limiterVars, advances, credVars>>

CallCommentSolution(f) ==
  /\ inv[f].pc = "idle"
  /\ \E args \in CommentSolutionArgs :
       inv' = [inv EXCEPT ![f] = CommentSolution(Begin(@, "comment_solution", args))]
  /\ UNCHANGED <<now, limiterVars, advances, credVars>>

\* if (!args) throw InvalidParams; default: throw MethodNotFound
Rejected(fl, hasArgs) ==
  IF ~ hasArgs THEN Fail(fl, InvalidParams("Arguments are required"))
  ELSE Fail(fl, McpError("MethodNotFound", "Unknown tool", NoApi, NoCause))

\* mutant: a rejected request makes the server forget its API key
CallRejected_ForgetsKey(f) ==
  /\ inv[f].pc = "idle"
  /\ \E tool \in ToolNames \cup {"no_such_tool"}, hasArgs \in BOOLEAN :
       /\ (tool \in ToolNames => ~ hasArgs)
       /\ inv' = [inv EXCEPT ![f] = Rejected([@ EXCEPT !.tool = tool], hasArgs)]
  /\ apiKey' = FALSE
  /\ UNCHANGED <<now, limiterVars, advances, accessToken>>

\* a request without arguments, or for a tool the server does not have
CallRejected(f) ==
  /\ inv[f].pc = "idle"
  /\ \E tool \in ToolNames \cup {"no_such_tool"}, hasArgs \in BOOLEAN :
       /\ (tool \in ToolNames => ~ hasArgs)
       /\ inv' = [inv EXCEPT ![f] = Rejected([@ EXCEPT !.tool = tool], hasArgs)]
  /\ UNCHANGED <<now, limiterVars, advances, credVars>>

\* ------------------------------------------------------------------ read handlers alone

\* a tools/call request for a read tool with any of its optional arguments
RequestSearchByError(f) ==
  /\ inv[f].pc = "idle"
  /\ \E args \in SearchByErrorInputs :
       inv' = [inv EXCEPT ![f] = SearchByError(Begin(@, "search_by_error", args))]
  /\ UNCHANGED <<now, limiterVars, advances, credVars>>

RequestSearchByTags(f) ==
  /\ inv[f].pc = "idle"
  /\ \E args \in SearchByTagsInputs :
       inv' = [inv EXCEPT ![f] = SearchByTags(Begin(@, "search_by_tags", args))]
  /\ UNCHANGED <<now, limiterVars, advances, credVars>>

RequestAnalyzeStackTrace(f) ==
  /\ inv[f].pc = "idle"
  /\ \E args \in StackTraceInputs :
       inv' = [inv EXCEPT ![f] = AnalyzeStackTrace(Begin(@, "analyze_stack_trace", args))]
  /\ UNCHANGED <<now, limiterVars, advances, credVars>>

\* the read handlers from the request to the first fetch of the invocation
NextHandlers ==
  \/ RequestSearchByError(1)
  \/ RequestSearchByTags(1)
  \/ RequestAnalyzeStackTrace(1)
  \/ RateCheck(1)
  \/ TimerFires(1)

SpecHandlers == InitInvoker /\ [][NextHandlers]_vars

\* ------------------------------------------------------------------ overlapping invocations

\* the limiter as earlier invocations can have left it, with the permits of
\* those invocations in the history
InitOverlap ==
  /\ \E l \in InitLimiterStates :
       /\ now = l.now
       /\ requestTimestamps = l.stamps
       /\ granted = l.stamps
  /\ lastCheck = [kept |-> 0, result |-> TRUE]
  /\ advances = 0
  /\ apiKey \in BOOLEAN
  /\ accessToken \in BOOLEAN
  /\ inv = [f \in Flows |-> IdleFlow]

\* calls of post_solution that pass the argument checks, for a question
\* without answers and for one with an answer
OverlapSolutionArgs ==
  {a \in PostSolutionArgs :
     /\ a.questionId \in {2, 3} /\ a.body = "B"
     /\ a.confirmedResolved = "true" /\ Len(a.evidence.list) > 0}

\* calls of thumbs_up that pass the argument checks
OverlapThumbsUpArgs == {a \in ThumbsUpArgs : a.postId # 0 /\ a.confirmedFixed = "true"}

OverlapPostSolution(f) ==
  /\ inv[f].pc = "idle"
  /\ \E args \in OverlapSolutionArgs :
       inv' = [inv EXCEPT ![f] = PostSolution(Begin(@, "post_solution", args))]
  /\ UNCHANGED <<now, limiterVars, advances, credVars>>

OverlapThumbsUp(f) ==
  /\ inv[f].pc = "idle"
  /\ \E args \in OverlapThumbsUpArgs :
       inv' = [inv EXCEPT ![f] = ThumbsUp(Begin(@, "thumbs_up", args))]
  /\ UNCHANGED <<now, limiterVars, advances, credVars>>

\* the steps of one invocation; the event loop runs one such step at a time
FlowStep(f) ==
  \/ OverlapPostSolution(f)
  \/ OverlapThumbsUp(f)
  \/ CallRejected(f)
  \/ RateCheck(f)
  \/ TimerFires(f)
  \/ Settle(f)

\* two tool invocations in progress at the same time: their steps interleave
\* at every await
NextOverlap == \E f \in Flows : FlowStep(f)

SpecOverlap == InitOverlap /\ [][NextOverlap]_vars

\* ------------------------------------------------------------------ waiting under load

\* In this specification instants are offsets from the current instant: now
\* stays 0 and the passing of d milliseconds moves every instant on record d
\* milliseconds into the past. checkRateLimit and withRateLimit look at
\* differences of instants only. No history of the invocations is kept. The
\* operations resolve without waiting for anything, as the mock operations of
\* the tests do: a call, its check, its operation and the next call of a loop
\* are continuations that the event loop runs before it runs any timer.

\* the instants of a record, d milliseconds later
Shift(stamps, d) == [i \in 1..Len(stamps) |-> stamps[i] - d]

\* an operation that resolves whenever it is run
AlwaysResolves == [i \in 1..MaxScript |-> OpResolve]

\* the record of a flow without the history of its invocation
ForgetHistory(fl) ==
  [fl EXCEPT !.attempts = 0, !.denials = 0, !.localWaits = 0, !.remoteWaits = 0,
             !.checks = 0, !.permits = 0, !.reqs = <<>>,
             !.wakeAt = IF fl.phase = "sleepLocal" THEN @ ELSE 0]

\* the limiter as earlier invocations can have left it
InitWaiting ==
  /\ now = 0
  /\ \E l \in InitLimiterStates : requestTimestamps = Shift(l.stamps, l.now)
  /\ granted = <<>>
  /\ lastCheck = [kept |-> 0, result |-> TRUE]
  /\ advances = 0
  /\ apiKey = FALSE
  /\ accessToken = FALSE
  /\ inv = [f \in Flows |-> IdleFlow]

\* a continuation of the flow is ready to run
Runnable(fl) == fl.pc = "call" /\ fl.phase \in {"check", "inflight"}

\* the timers that were set before the timer a flow sets now and are due at
\* the same instant, counted
TimersAhead(f) ==
  Cardinality({g \in Flows \ {f} :
                 /\ inv[g].pc = "call" /\ inv[g].phase = "sleepLocal"
                 /\ inv[g].wakeAt = now + RETRY_AFTER_MS})

\* withRateLimit(fn) is called once, or by a loop that makes call after call
\* as the loop of the aggregation does
CallOnceOrInLoop(f) ==
  /\ inv[f].pc = "idle"
  /\ \E tool \in {"op", "loop"} :
       inv' = [inv EXCEPT ![f] =
         ForgetHistory(StartCall([@ EXCEPT !.tool = tool, !.script = AlwaysResolves], "op"))]
  /\ UNCHANGED <<now, limiterVars, advances, credVars>>

\* checkRateLimit() is called in withRateLimit
CheckAgain(f) ==
  /\ inv[f].pc = "call" /\ inv[f].phase = "check"
  /\ requestTimestamps' = CheckRateLimitStamps(requestTimestamps, now)
  /\ lastCheck' = [kept |-> Len(FilterWindow(requestTimestamps, now)),
                   result |-> CheckRateLimitResult(requestTimestamps, now)]
  /\ inv' = [inv EXCEPT ![f] =
       [ForgetHistory(Checked(@, CheckRateLimitResult(requestTimestamps, now)))
          EXCEPT !.turn = IF CheckRateLimitResult(requestTimestamps, now)
                            THEN 0 ELSE TimersAhead(f)]]
  /\ UNCHANGED <<now, granted, advances, credVars>>

\* the timer of the flow is the next one to fire: no continuation is ready,
\* and no other timer is due earlier or was set earlier for the same instant
NextTimer(f) ==
  /\ inv[f].pc = "call" /\ inv[f].phase = "sleepLocal"
  /\ \A g \in Flows \ {f} :
       /\ ~ Runnable(inv[g])
       /\ (inv[g].pc = "call" /\ inv[g].phase = "sleepLocal") =>
            \/ inv[f].wakeAt < inv[g].wakeAt
            \/ inv[f].wakeAt = inv[g].wakeAt /\ inv[f].turn < inv[g].turn

\* the time until the timer of a flow is due has passed and the timer fires:
\* withRateLimit calls itself
WaitIsOver(f) ==
  /\ NextTimer(f)
  /\ LET d == IF now < inv[f].wakeAt THEN inv[f].wakeAt - now ELSE 0 IN
       /\ requestTimestamps' = Shift(requestTimestamps, d)
       /\ inv' = [g \in Flows |->
            IF g = f
              THEN [ForgetHistory(Recurse(inv[g], RetriesAfterDenial(inv[g].retries)))
                      EXCEPT !.turn = 0]
            ELSE IF inv[g].pc = "call" /\ inv[g].phase = "sleepLocal"
              THEN [inv[g] EXCEPT !.wakeAt = @ - d,
                                  !.turn = IF inv[g].wakeAt = inv[f].wakeAt
                                             THEN @ - 1 ELSE @]
            ELSE inv[g]]
  /\ UNCHANGED <<now, granted, lastCheck, advances, credVars>>

\* the operation resolves and withRateLimit returns its value; a loop makes
\* its next call
Resolves(f) ==
  /\ inv[f].pc = "call" /\ inv[f].phase = "inflight"
  /\ inv' = [inv EXCEPT ![f] =
       IF inv[f].tool = "loop"
         THEN ForgetHistory(StartCall(@, "op"))
         ELSE ForgetHistory(Continue(@, OpResolve))]
  /\ UNCHANGED <<now, limiterVars, advances, credVars>>

NextWaiting ==
  \E f \in Flows : CallOnceOrInLoop(f) \/ CheckAgain(f) \/ WaitIsOver(f) \/ Resolves(f)

\* every continuation that is ready is run in the end, and every timer fires
FairWaiting ==
  \A f \in Flows :
    WF_vars(CheckAgain(f)) /\ WF_vars(WaitIsOver(f)) /\ WF_vars(Resolves(f))

SpecWaiting == InitWaiting /\ [][NextWaiting]_vars /\ FairWaiting

\* ------------------------------------------------------------------ the server

\* the constructor reads the credentials from the environment; the limiter is
\* as earlier invocations can have left it
Init ==
  /\ \E l \in InitLimiterStates :
       /\ now = l.now
       /\ requestTimestamps = l.stamps
  /\ granted = <<>>
  /\ lastCheck = [kept |-> 0, result |-> TRUE]
  /\ advances = 0
  /\ apiKey \in BOOLEAN
  /\ accessToken \in BOOLEAN
  /\ inv = [f \in Flows |-> IdleFlow]

\* one tool invocation at a time: the reference design of the server
Next ==
  \/ CallSearchByError(1)
  \/ CallSearchByTags(1)
  \/ CallAnalyzeStackTrace(1)
  \/ CallPostQuestion(1)
  \/ CallPostSolution(1)
  \/ CallThumbsUp(1)
  \/ CallCommentSolution(1)
  \/ CallRejected(1)
  \/ RateCheck(1)
  \/ TimerFires(1)
  \/ Settle(1)

Spec == Init /\ [][Next]_vars

\* ------------------------------------------------------------------ formatResponse

JsNum(n) == JsNode("num", n, "", <<>>)

JsStr(str) == JsNode("str", 0, str, <<>>)

JsBool(b) == JsNode("bool", 0, IF b THEN "true" ELSE "false", <<>>)

JsArr(xs) == JsNode("arr", 0, "", [i \in 1..Len(xs) |-> [k |-> "", v |-> xs[i]]])

JsObj(members) == JsNode("obj", 0, "", members)

\* one property of an object
Member(k, v) == <<[k |-> k, v |-> v]>>

\* the integer keys of an object are enumerated in ascending order
RECURSIVE SortedIds(_)
SortedIds(ids) ==
  IF ids = {} THEN <<>>
  ELSE LET m == CHOOSE x \in ids : \A y \in ids : x <= y
       IN <<m>> \o SortedIds(ids \ {m})

\* mutant: the title of the question is lost
JsQuestion_NoTitle(q) ==
  JsObj(Member("question_id", JsNum(q.question_id))
        \o Member("score", JsNum(q.score))
        \o Member("answer_count", JsNum(q.answer_count))
        \o (IF q.accepted_answer_id # 0
              THEN Member("accepted_answer_id", JsNum(q.accepted_answer_id))
              ELSE <<>>))

\* a StackOverflowQuestion as the remote service sent it
JsQuestion(q) ==
  JsObj(Member("question_id", JsNum(q.question_id))
        \o Member("title", JsStr(q.title))
        \o Member("score", JsNum(q.score))
        \o Member("answer_count", JsNum(q.answer_count))
        \o (IF q.accepted_answer_id # 0
              THEN Member("accepted_answer_id", JsNum(q.accepted_answer_id))
              ELSE <<>>))

JsAnswer(a) ==
  JsObj(Member("answer_id", JsNum(a.answer_id))
        \o Member("question_id", JsNum(a.question_id))
        \o Member("score", JsNum(a.score))
        \o Member("is_accepted", JsBool(a.is_accepted)))

JsComment(c) ==
  JsObj(Member("comment_id", JsNum(c.comment_id))
        \o Member("post_id", JsNum(c.post_id))
        \o Member("score", JsNum(c.score)))

JsAnswers(answers) == JsArr([i \in 1..Len(answers) |-> JsAnswer(answers[i])])

JsComments(comments) == JsArr([i \in 1..Len(comments) |-> JsComment(comments[i])])

\* the SearchResultComments of a result: { question, answers: answersMap }
JsBundle(bundle) ==
  LET ids == SortedIds(DOMAIN bundle.answers) IN
    JsObj(Member("question", JsComments(bundle.question))
          \o Member("answers",
               JsObj([i \in 1..Len(ids) |->
                        [k |-> ToString(ids[i]), v |-> JsComments(bundle.answers[ids[i]])]])))

\* a SearchResult: { question, answers, ...(includeComments && { comments }) }
JsResult(result) ==
  JsObj(Member("question", JsQuestion(result.question))
        \o Member("answers", JsAnswers(result.answers))
        \o (IF result.hasComments THEN Member("comments", JsBundle(result.comments))
            ELSE <<>>))

JsResults(results) == JsArr([i \in 1..Len(results) |-> JsResult(results[i])])

\* a token of a JSON text; the white space of the indentation is left out
Tok(t, str, n) == [t |-> t, s |-> str, n |-> n]

\* JSON.stringify(value, null, 2)
RECURSIVE Stringify(_)
RECURSIVE StringifyKids(_, _, _)
Stringify(node) ==
  IF node.t = "num" THEN <<Tok("num", "", node.n)>>
  ELSE IF node.t = "str" THEN <<Tok("str", node.s, 0)>>
  ELSE IF node.t = "bool" THEN <<Tok(node.s, "", 0)>>
  ELSE IF node.t = "arr"
    THEN <<Tok("[", "", 0)>> \o StringifyKids(node.kids, 1, FALSE) \o <<Tok("]", "", 0)>>
  ELSE <<Tok("{", "", 0)>> \o StringifyKids(node.kids, 1, TRUE) \o <<Tok("}", "", 0)>>

StringifyKids(kids, i, keyed) ==
  IF i > Len(kids) THEN <<>>
  ELSE (IF i > 1 THEN <<Tok(",", "", 0)>> ELSE <<>>)
       \o (IF keyed THEN <<Tok("str", kids[i].k, 0), Tok(":", "", 0)>> ELSE <<>>)
       \o Stringify(kids[i].v)
       \o StringifyKids(kids, i + 1, keyed)

\* JSON.parse(text): the value that starts at a position and the position
\* after it
RECURSIVE ParseValue(_, _)
RECURSIVE ParseKids(_, _, _, _)
ParseValue(toks, pos) ==
  LET tk == toks[pos] IN
    IF tk.t = "num" THEN [v |-> JsNum(tk.n), pos |-> pos + 1]
    ELSE IF tk.t = "str" THEN [v |-> JsStr(tk.s), pos |-> pos + 1]
    ELSE IF tk.t \in {"true", "false"} THEN [v |-> JsBool(tk.t = "true"), pos |-> pos + 1]
    ELSE LET r == ParseKids(toks, pos + 1, tk.t = "{", <<>>)
         IN [v |-> JsNode(IF tk.t = "{" THEN "obj" ELSE "arr", 0, "", r.kids),
             pos |-> r.pos]

ParseKids(toks, pos, keyed, acc) ==
  IF toks[pos].t \in {"]", "}"} THEN [kids |-> acc, pos |-> pos + 1]
  ELSE LET p == IF toks[pos].t = "," THEN pos + 1 ELSE pos
           q == IF keyed THEN p + 2 ELSE p
           r == ParseValue(toks, q)
       IN ParseKids(toks, r.pos, keyed,
                    Append(acc, [k |-> IF keyed THEN toks[p].s ELSE "", v |-> r.v]))

JsonParse(toks) == ParseValue(toks, 1).v

\* a line of a markdown text, with the newline that ends it: its kind, its
\* words and the values interpolated into it
Line(kind, text, n, m, marked) ==
  [kind |-> kind, text |-> text, n |-> n, m |-> m, marked |-> marked]

Blank == Line("blank", "", 0, 0, FALSE)

\* `- ${comment.body} *(Score: ${comment.score})*\n` for each comment
Bullets(comments) ==
  [i \in 1..Len(comments) |-> Line("bullet", "Score", comments[i].comment_id,
                                   comments[i].score, FALSE)]

\* mutant: no heading carries the accepted marker
AnswerHeading_NeverMarked(answer) == Line("h3", "Answer (Score)", answer.score, 0, FALSE)

\* `### ${answer.is_accepted ? "✓ " : ""}Answer (Score: ${answer.score})`
AnswerHeading(answer) ==
  Line("h3", "Answer (Score)", answer.score, 0, answer.is_accepted)

\* the lines of one answer: heading, body and, when the bundle has an entry
\* for the answer, its comments
AnswerLines(result, answer) ==
  <<AnswerHeading(answer), Blank, Line("body", "answer", answer.answer_id, 0, FALSE), Blank>>
  \o (IF result.hasComments /\ answer.answer_id \in DOMAIN result.comments.answers
        THEN <<Line("h4", "Answer Comments", 0, 0, FALSE), Blank>>
             \o Bullets(result.comments.answers[answer.answer_id]) \o <<Blank>>
        ELSE <<>>)

\* result.answers.forEach(...)
RECURSIVE AnswersLines(_, _)
AnswersLines(result, i) ==
  IF i > Len(result.answers) THEN <<>>
  ELSE AnswerLines(result, result.answers[i]) \o AnswersLines(result, i + 1)

\* the markdown of one result
ResultLines(result) ==
  <<Line("h1", result.question.title, 0, 0, FALSE), Blank,
    Line("summary", "Score | Answers", result.question.score,
         result.question.answer_count, FALSE), Blank,
    Line("h2", "Question", 0, 0, FALSE), Blank,
    Line("body", "question", result.question.question_id, 0, FALSE), Blank>>
  \o (IF result.hasComments
        THEN <<Line("h3", "Question Comments", 0, 0, FALSE), Blank>>
             \o Bullets(result.comments.question) \o <<Blank>>
        ELSE <<>>)
  \o <<Line("h2", "Answers", 0, 0, FALSE), Blank>>
  \o AnswersLines(result, 1)
  \o <<Line("rule", "---", 0, 0, FALSE), Blank,
       Line("link", "View on Stack Overflow", result.question.question_id, 0, FALSE),
       Blank>>

\* the "\n\n" of join("\n\n"): two more line ends
Separator == <<Blank, Blank>>

\* results.map(...).join("\n\n")
RECURSIVE JoinLines(_, _)
JoinLines(results, i) ==
  IF i > Len(results) THEN <<>>
  ELSE (IF i > 1 THEN Separator ELSE <<>>)
       \o ResultLines(results[i]) \o JoinLines(results, i + 1)

\* mutant: an empty markdown text is replaced by a placeholder
FormatResponse_Placeholder(results, format) ==
  IF format \in {"absent", "json"}
    THEN [kind |-> "json", tokens |-> Stringify(JsResults(results)), lines |-> <<>>]
  ELSE IF results = <<>>
    THEN [kind |-> "markdown", tokens |-> <<>>,
          lines |-> <<Line("text", "No results found", 0, 0, FALSE)>>]
  ELSE [kind |-> "markdown", tokens |-> <<>>, lines |-> JoinLines(results, 1)]

\* formatResponse(results, format = "json")
FormatResponse(results, format) ==
  IF format \in {"absent", "json"}
    THEN [kind |-> "json", tokens |-> Stringify(JsResults(results)), lines |-> <<>>]
    ELSE [kind |-> "markdown", tokens |-> <<>>, lines |-> JoinLines(results, 1)]

\* the map from answer ids to comments that the aggregation builds for answers
AnswerMap(answers) ==
  [id \in {answers[i].answer_id : i \in 1..Len(answers)} |-> CommentItems(id)]

\* the results the aggregation composes from the remote data
Composites ==
  { [question |-> q, answers |-> AnswerItems(q.question_id), hasComments |-> c,
     comments |-> IF c THEN [question |-> CommentItems(q.question_id),
                             answers |-> AnswerMap(AnswerItems(q.question_id))]
                  ELSE [question |-> <<>>, answers |-> <<>>]] :
      q \in RemoteQuestions, c \in BOOLEAN }

ResultSeqs == UNION {[1..n -> Composites] : n \in 0..MaxResults}

Formats == {"absent", "json", "markdown"}

\* formatResponse(results, format) is called
CallFormatResponse(f) ==
  /\ inv[f].pc = "idle"
  /\ \E results \in ResultSeqs, format \in Formats :
       inv' = [inv EXCEPT ![f] =
                 [@ EXCEPT !.tool = "formatResponse", !.pc = "formatted",
                           !.results = results, !.format = format,
                           !.body = FormatResponse(results, format)]]
  /\ UNCHANGED <<now, limiterVars, advances, credVars>>

\* JSON.parse(jsonResponse): the reader of a structured text parses it
ParseResponse(f) ==
  /\ inv[f].pc = "formatted"
  /\ inv[f].body.kind = "json"
  /\ inv' = [inv EXCEPT ![f] = [@ EXCEPT !.pc = "parsed",
                                          !.parsed = JsonParse(inv[f].body.tokens)]]
  /\ UNCHANGED <<now, limiterVars, advances, credVars>>

NextFormat ==
  \/ CallFormatResponse(1)
  \/ ParseResponse(1)

SpecFormat == InitInvoker /\ [][NextFormat]_vars

\* ------------------------------------------------------------------ limiter alone

\* private requestTimestamps: number[] = []
InitLimiter ==
  /\ now = 0
  /\ requestTimestamps = <<>>
  /\ granted = <<>>
  /\ lastCheck = [kept |-> 0, result |-> TRUE]
  /\ advances = 0
  /\ apiKey = FALSE
  /\ accessToken = FALSE
  /\ inv = [f \in Flows |-> IdleFlow]

\* the clock moves between two calls; the steps straddle the window's edge
ClockSteps == {1, RATE_LIMIT_WINDOW_MS - 1}

AdvanceClock ==
  /\ advances < MaxAdvances
  /\ \E d \in ClockSteps : now' = now + d
  /\ advances' = advances + 1
  /\ UNCHANGED <<requestTimestamps, granted, lastCheck, apiKey, accessToken, inv>>

CallCheckRateLimit ==
  /\ CheckRateLimit
  /\ UNCHANGED <<now, advances, apiKey, accessToken, inv>>

NextLimiter == AdvanceClock \/ CallCheckRateLimit

SpecLimiter == InitLimiter /\ [][NextLimiter]_vars

\* ------------------------------------------------------------------ claims

\* C1: in any rolling 60-second window at most 30 calls are permitted (the
\* permit granted 30 permits before any permit lies outside the 60000 ms
\* that end at it), and a call that finds 30 permits in the window is denied.
C1_AtMost30PerWindow ==
  /\ \A i \in 1..Len(granted) :
        i > MAX_REQUESTS_PER_WINDOW =>
          ~ InWindow(granted[i], granted[i - MAX_REQUESTS_PER_WINDOW])
  /\ lastCheck.kept >= MAX_REQUESTS_PER_WINDOW => ~ lastCheck.result

\* C1 witness: a call that found 30 permits in the window was denied, after
\* the first 30 timestamps had aged out and further calls had been permitted.
C1_Witness ==
  /\ Len(granted) > MAX_REQUESTS_PER_WINDOW
  /\ lastCheck.result = FALSE
  /\ lastCheck.kept = MAX_REQUESTS_PER_WINDOW

\* a rejection that carries the remote-rate-limit signal: a status of 429, or
\* 429 embedded in the error's message
Signals429(o) == o.k = "reject" /\ (o.err.status = 429 \/ o.err.msg429)

\* the operation fails with a 429 signal exactly k times and then succeeds
FailsThenSucceeds(script, k) ==
  /\ k + 1 <= Len(script)
  /\ \A i \in 1..k : Signals429(script[i])
  /\ script[k + 1] = OpResolve

\* C3: an operation that fails with a 429 signal exactly k times (k <= 3) and
\* then succeeds is never attempted more than k+1 times, and withRateLimit
\* called with the default budget ends by returning the success value after
\* exactly k+1 attempts.
C3_RetriesUntilSuccess ==
  \A f \in Flows : \A k \in 0..DefaultRetries :
    (inv[f].tool = "op" /\ FailsThenSucceeds(inv[f].script, k)) =>
      /\ inv[f].attempts <= k + 1
      /\ inv[f].pc = "done" =>
           /\ inv[f].outcome.kind = "result"
           /\ inv[f].outcome.text = OpResolve.value
           /\ inv[f].attempts = k + 1

\* C3 witness: two 429 failures, then success on the third attempt.
C3_Witness ==
  /\ inv[1].pc = "done"
  /\ FailsThenSucceeds(inv[1].script, 2)
  /\ inv[1].outcome.kind = "result"
  /\ inv[1].attempts = 3

\* C5: one withRateLimit invocation attempts the operation at most 4 times;
\* when the fourth attempt fails with a 429 signal too, that very error is
\* thrown to the caller and the invocation has ended.
C5_BoundedRemoteRetries ==
  \A f \in Flows :
    inv[f].tool = "op" =>
      /\ inv[f].attempts <= DefaultRetries + 1
      /\ (/\ inv[f].attempts = DefaultRetries + 1
          /\ inv[f].phase # "inflight"
          /\ Signals429(inv[f].script[DefaultRetries + 1])) =>
           /\ inv[f].pc = "done"
           /\ inv[f].outcome.kind = "error"
           /\ inv[f].outcome.err = RawError(inv[f].script[DefaultRetries + 1].err)

\* C5 witness: four attempts, all failed with a 429 signal, the error thrown.
C5_Witness ==
  /\ inv[1].pc = "done"
  /\ inv[1].attempts = DefaultRetries + 1
  /\ inv[1].retries = 0
  /\ inv[1].outcome.kind = "error"
  /\ Is429Signal(inv[1].outcome.err.cause)

\* a rejection that carries no remote-rate-limit signal
FailsOtherwise(o) == o.k = "reject" /\ ~ Signals429(o)

\* C6: an attempt that fails without a 429 signal is the last one: its error
\* is thrown to the caller as it is, no backoff wait follows it, and when it is
\* the first attempt the operation ran once and the budget is untouched.
C6_OtherErrorsPropagate ==
  \A f \in Flows :
    inv[f].tool = "op" =>
      \A j \in 1..inv[f].attempts :
        (FailsOtherwise(OpOutcome(inv[f].script, j)) /\ ~ (j = inv[f].attempts /\ inv[f].phase = "inflight")) =>
          /\ j = inv[f].attempts
          /\ inv[f].pc = "done"
          /\ inv[f].outcome.kind = "error"
          /\ inv[f].outcome.err = RawError(OpOutcome(inv[f].script, j).err)
          /\ inv[f].remoteWaits = j - 1
          /\ j = 1 => inv[f].retries = DefaultRetries

\* C6 witness: the first attempt failed with a network error, which was thrown.
C6_Witness ==
  /\ inv[1].pc = "done"
  /\ inv[1].attempts = 1
  /\ inv[1].outcome.err = RawError(NetworkError)
  /\ inv[1].remoteWaits = 0
  /\ inv[1].retries = DefaultRetries

\* C7: denials by the local limiter never consume the remote-retry budget:
\* whatever the number of denials, the budget is the default less the number
\* of retries made after a 429 signal.
C7_DenialsKeepBudget ==
  \A f \in Flows :
    inv[f].pc # "idle" => inv[f].retries = DefaultRetries - inv[f].remoteWaits

\* C7 witness: the limiter denied before the first attempt and again between
\* two attempts, and the budget shows the one retry after the 429 signal.
C7_Witness ==
  /\ inv[1].tool = "op"
  /\ inv[1].denials >= 2
  /\ inv[1].localWaits >= 2
  /\ inv[1].remoteWaits = 1
  /\ inv[1].attempts = 2
  /\ inv[1].retries = DefaultRetries - 1

\* the requests sent by all flows
TotalRequests == Len(inv[1].reqs) + Len(inv[2].reqs)

\* C2: every request sent to the remote service, a read, a write or a retry of
\* either, used a permit of the shared limiter granted at the instant it was
\* sent: the requests are as many as the permits granted.
C2_RequestsPassLimiter ==
  /\ TotalRequests = Len(granted)
  /\ \A f \in Flows :
       /\ Len(inv[f].reqs) = inv[f].permits
       /\ \A i \in 1..Len(inv[f].reqs) :
            \E j \in 1..Len(granted) : granted[j] = inv[f].reqs[i].at

\* C2 witness: an invocation sent a read and a write request, retried one of
\* them after a 429 signal and was denied by the limiter at least once.
C2_Witness ==
  /\ \E i \in 1..Len(inv[1].reqs) : inv[1].reqs[i].method = "GET"
  /\ \E i \in 1..Len(inv[1].reqs) : inv[1].reqs[i].method = "POST"
  /\ inv[1].rejects429 > 0
  /\ inv[1].attempts = 2
  /\ inv[1].checks > inv[1].permits

\* C4: when the remote service answers a request with an HTTP 429 response
\* while retries remain, the call is not surfaced as an error (it is retried).
C4_Http429ResponseRetried ==
  \A f \in Flows :
    (/\ inv[f].last.k = "resolve"
     /\ inv[f].last.resp.status = 429
     /\ inv[f].lastRetries > 0) =>
      ~ (inv[f].pc = "done" /\ inv[f].outcome.kind = "error")

\* C8: a mutating request (POST) is sent only when both the API key and the
\* access token are configured.
C8_WritesNeedBothCredentials ==
  \A f \in Flows : \A i \in 1..Len(inv[f].reqs) :
    inv[f].reqs[i].method = "POST" => (apiKey /\ accessToken)

\* C8 witness: a write handler has sent its POST request.
C8_Witness ==
  /\ inv[1].tool \in WriteTools
  /\ inv[1].site = "write"
  /\ inv[1].phase = "inflight"
  /\ inv[1].reqs[Len(inv[1].reqs)].method = "POST"

\* C9 as stated: without an access token a write tool makes no network call
\* at all, read or write.
C9_NoTokenNoNetworkCall ==
  \A f \in Flows :
    (inv[f].tool \in WriteTools /\ ~ accessToken) => inv[f].reqs = <<>>

\* C9 amended: without an access token a write tool never sends a mutating
\* request and never succeeds; thumbs_up makes no network call at all and,
\* once confirmedFixed is given, fails with the credentials error; the other
\* three tools send only the reads of their precondition checks.
C9_NoTokenNoWrite ==
  \A f \in Flows :
    (inv[f].tool \in WriteTools /\ ~ accessToken) =>
      /\ inv[f].site # "write"
      /\ \A i \in 1..Len(inv[f].reqs) : inv[f].reqs[i].method = "GET"
      /\ inv[f].pc = "done" => inv[f].outcome.kind = "error"
      /\ inv[f].tool = "thumbs_up" =>
           /\ inv[f].reqs = <<>>
           /\ (/\ inv[f].args # NoArguments
               /\ inv[f].args.postId # 0
               /\ inv[f].args.confirmedFixed = "true") =>
                inv[f].outcome.err = WriteAccessError

\* C9 witness: post_solution without an access token fetched the question
\* and then failed with the credentials error.
C9_Witness ==
  /\ ~ accessToken
  /\ inv[1].tool = "post_solution"
  /\ inv[1].pc = "done"
  /\ inv[1].outcome.err = WriteAccessError
  /\ Len(inv[1].reqs) = 1
  /\ inv[1].reqs[1].site = "question"

\* C10: post_question with a triedApproaches list of fewer than 3 entries is
\* rejected, and the invocation consults no limiter and sends no request.
C10_TooFewApproachesRejected ==
  \A f \in Flows :
    (/\ inv[f].tool = "post_question"
     /\ inv[f].args # NoArguments
     /\ inv[f].args.triedApproaches.kind = "array"
     /\ Len(inv[f].args.triedApproaches.list) < 3) =>
      /\ inv[f].pc = "done"
      /\ inv[f].outcome.kind = "error"
      /\ inv[f].outcome.err.code = "InvalidParams"
      /\ inv[f].reqs = <<>>
      /\ inv[f].checks = 0

\* C10 witness: a call that is valid but for its two tried approaches.
C10_Witness ==
  /\ inv[1].tool = "post_question"
  /\ inv[1].args # NoArguments
  /\ inv[1].args.title # "" /\ inv[1].args.body # ""
  /\ inv[1].args.errorSignature # "" /\ inv[1].args.tagsKind = "array"
  /\ inv[1].args.triedApproaches.kind = "array"
  /\ Len(inv[1].args.triedApproaches.list) = 2
  /\ inv[1].pc = "done"
  /\ inv[1].outcome.err = InvalidParams("At least 3 triedApproaches are required")

\* the number of distinct strings of a list
DistinctCount(list) == Cardinality({list[i] : i \in 1..Len(list)})

\* C11: post_question with a triedApproaches list of 3 or more entries of which
\* fewer than 3 are distinct is rejected, and the invocation sends no request.
C11_DistinctApproachesRequired ==
  \A f \in Flows :
    (/\ inv[f].tool = "post_question"
     /\ inv[f].args # NoArguments
     /\ inv[f].args.triedApproaches.kind = "array"
     /\ Len(inv[f].args.triedApproaches.list) >= 3
     /\ DistinctCount(inv[f].args.triedApproaches.list) < 3) =>
      /\ inv[f].pc = "done"
      /\ inv[f].outcome.kind = "error"
      /\ inv[f].reqs = <<>>

\* the error handlePostQuestion throws when the duplicate search found something
DuplicateError ==
  McpError("InvalidRequest",
           "Refusing to post: similar questions already exist for the provided errorSignature",
           NoApi, NoCause)

\* the loop of the duplicate search of post_question over the questions ended
DuplicateSearchEnded(fl) ==
  /\ fl.tool = "post_question"
  /\ fl.args # NoArguments
  /\ fl.permits > 0
  /\ fl.qi > Len(fl.items)

\* C12: post_question sends its POST only after a duplicate search that
\* returned no result; when the duplicate search returned a result the
\* invocation has ended with the duplicate error and sent no POST.
C12_DuplicateBlocksPost ==
  \A f \in Flows :
    inv[f].tool = "post_question" =>
      /\ (\E i \in 1..Len(inv[f].reqs) : inv[f].reqs[i].method = "POST") =>
           /\ inv[f].results = <<>>
           /\ inv[f].reqs[1].site = "search"
           /\ \A i \in 1..Len(inv[f].reqs) :
                inv[f].reqs[i].method = "POST" => i > 1
      /\ (DuplicateSearchEnded(inv[f]) /\ Len(inv[f].results) > 0) =>
           /\ inv[f].pc = "done"
           /\ inv[f].outcome.err = DuplicateError
           /\ \A i \in 1..Len(inv[f].reqs) : inv[f].reqs[i].method = "GET"

\* C12 witness: the duplicate search composed a result (the question and its
\* answers were fetched) and the invocation was rejected as a duplicate.
C12_Witness ==
  /\ inv[1].tool = "post_question"
  /\ Len(inv[1].results) > 0
  /\ Len(inv[1].reqs) >= 2
  /\ inv[1].pc = "done"
  /\ inv[1].outcome.err = DuplicateError

\* C13: post_solution whose confirmedResolved is not true, or whose
\* confirmedResolved is true and whose evidence list is empty, is rejected and
\* the invocation consults no limiter and sends no request.
C13_UnconfirmedSolutionRejected ==
  \A f \in Flows :
    (/\ inv[f].tool = "post_solution"
     /\ inv[f].args # NoArguments
     /\ \/ inv[f].args.confirmedResolved = "false"
        \/ /\ inv[f].args.confirmedResolved = "true"
           /\ inv[f].args.evidence.kind = "array"
           /\ inv[f].args.evidence.list = <<>>) =>
      /\ inv[f].pc = "done"
      /\ inv[f].outcome.kind = "error"
      /\ inv[f].reqs = <<>>
      /\ inv[f].checks = 0

\* C13 witness: a call that is valid but for its empty evidence list.
C13_Witness ==
  /\ inv[1].tool = "post_solution"
  /\ inv[1].args # NoArguments
  /\ inv[1].args.questionId = 2 /\ inv[1].args.body # ""
  /\ inv[1].args.confirmedResolved = "true"
  /\ inv[1].args.evidence = [kind |-> "array", list |-> <<>>]
  /\ inv[1].pc = "done"
  /\ inv[1].outcome.err = InvalidParams("Refusing to post: evidence is required")

\* the invocation of a flow has sent a POST request
SentPost(fl) == \E i \in 1..Len(fl.reqs) : fl.reqs[i].method = "POST"

\* fetchQuestion of the invocation of a flow returned: the last fetch that
\* settled is the GET of the question, answered with a success response
QuestionReturned(fl) ==
  /\ fl.args # NoArguments
  /\ fl.reqs # <<>>
  /\ ~ SentPost(fl)
  /\ fl.last.k = "resolve"
  /\ fl.last.resp.ok

\* the question fetchQuestion returned, as a set: empty when it returned undefined
FetchedQuestion(fl) ==
  {ItemsOrEmpty(fl.last.resp)[i] : i \in 1..Len(ItemsOrEmpty(fl.last.resp))}

\* C14: post_solution sends its POST only for a question that the remote
\* service holds, that has no accepted answer and whose answer_count is 0;
\* when the fetched question is not found, has an accepted answer or has
\* answer_count > 0 the invocation has ended with an error and sent no POST.
C14_SolutionOnlyForUnanswered ==
  \A f \in Flows :
    inv[f].tool = "post_solution" =>
      /\ SentPost(inv[f]) =>
           /\ \E q \in QuestionById(inv[f].args.questionId) :
                q.accepted_answer_id = 0 /\ q.answer_count = 0
           /\ inv[f].reqs[1].site = "question"
      /\ (/\ QuestionReturned(inv[f])
          /\ \/ FetchedQuestion(inv[f]) = {}
             \/ \E q \in FetchedQuestion(inv[f]) :
                  q.accepted_answer_id # 0 \/ q.answer_count > 0) =>
           /\ inv[f].pc = "done"
           /\ inv[f].outcome.kind = "error"
           /\ inv[f].outcome.err.code = "InvalidRequest"

\* C14 witness: the fetched question has an answer but no accepted one, and
\* the invocation was rejected after that one GET.
C14_Witness ==
  /\ inv[1].tool = "post_solution"
  /\ QuestionReturned(inv[1])
  /\ \E q \in FetchedQuestion(inv[1]) : q.accepted_answer_id = 0 /\ q.answer_count > 0
  /\ Len(inv[1].reqs) = 1
  /\ inv[1].pc = "done"
  /\ inv[1].outcome.kind = "error"

\* C15: thumbs_up whose confirmedFixed is not true is rejected without a
\* limiter check or a request; the requests of a thumbs_up are upvote POSTs
\* only, none is a read.
C15_UpvoteOnlyWhenConfirmed ==
  \A f \in Flows :
    (inv[f].tool = "thumbs_up" /\ inv[f].args # NoArguments) =>
      /\ inv[f].args.confirmedFixed # "true" =>
           /\ inv[f].pc = "done"
           /\ inv[f].outcome.kind = "error"
           /\ inv[f].reqs = <<>>
           /\ inv[f].checks = 0
      /\ \A i \in 1..Len(inv[f].reqs) :
           /\ inv[f].reqs[i].method = "POST"
           /\ inv[f].reqs[i].site = "write"
           /\ inv[f].reqs[i].target = inv[f].args.postId

\* C15 witness: a confirmed thumbs_up succeeded with one request, the upvote.
C15_Witness ==
  /\ inv[1].tool = "thumbs_up"
  /\ inv[1].args # NoArguments
  /\ inv[1].args.confirmedFixed = "true"
  /\ inv[1].pc = "done"
  /\ inv[1].outcome.kind = "result"
  /\ Len(inv[1].reqs) = 1
  /\ inv[1].reqs[1].method = "POST"

\* C16: comment_solution sends its POST only for a question that the remote
\* service holds and that has no accepted answer; when the fetched question is
\* not found or has an accepted answer the invocation has ended with an error
\* and sent no POST.
C16_CommentOnlyWithoutAccepted ==
  \A f \in Flows :
    inv[f].tool = "comment_solution" =>
      /\ SentPost(inv[f]) =>
           /\ \E q \in QuestionById(inv[f].args.questionId) : q.accepted_answer_id = 0
           /\ inv[f].reqs[1].site = "question"
      /\ (/\ QuestionReturned(inv[f])
          /\ \/ FetchedQuestion(inv[f]) = {}
             \/ \E q \in FetchedQuestion(inv[f]) : q.accepted_answer_id # 0) =>
           /\ inv[f].pc = "done"
           /\ inv[f].outcome.kind = "error"
           /\ inv[f].outcome.err.code = "InvalidRequest"

\* C16 witness: the fetched question has an accepted answer and the
\* invocation was rejected after that one GET.
C16_Witness ==
  /\ inv[1].tool = "comment_solution"
  /\ QuestionReturned(inv[1])
  /\ \E q \in FetchedQuestion(inv[1]) : q.accepted_answer_id # 0
  /\ Len(inv[1].reqs) = 1
  /\ inv[1].pc = "done"
  /\ inv[1].outcome.err =
       McpError("InvalidRequest",
                "Refusing to comment: question already has an accepted answer",
                NoApi, NoCause)

\* an argument that the input schema of the tool requires is missing from the
\* call or is not of the shape the schema asks for
RequiredMissing(fl) ==
  \/ fl.tool = "search_by_error" /\ fl.args.errorMessage = ""
  \/ fl.tool = "search_by_tags" /\ fl.args.tagsKind = "absent"
  \/ fl.tool = "analyze_stack_trace" /\ (fl.args.stackTrace = <<>> \/ fl.args.language = "")
  \/ /\ fl.tool = "post_question"
     /\ \/ fl.args.title = "" \/ fl.args.body = "" \/ fl.args.errorSignature = ""
        \/ fl.args.tagsKind = "absent"
        \/ fl.args.triedApproaches.kind # "array"
        \/ Len(fl.args.triedApproaches.list) < 3
  \/ /\ fl.tool = "post_solution"
     /\ \/ fl.args.questionId = 0 \/ fl.args.body = ""
        \/ fl.args.confirmedResolved = "absent"
        \/ fl.args.evidence.kind # "array"
        \/ Len(fl.args.evidence.list) < 1
  \/ /\ fl.tool = "thumbs_up"
     /\ (fl.args.postId = 0 \/ fl.args.confirmedFixed = "absent")
  \/ /\ fl.tool = "comment_solution"
     /\ (fl.args.questionId = 0 \/ fl.args.body = "")

\* C17: a call of any of the seven tools in which a required argument is
\* missing or invalid has ended with an InvalidParams error, and the
\* invocation consulted no limiter and sent no request.
C17_MissingArgumentIsInvalidParams ==
  \A f \in Flows :
    (/\ inv[f].tool \in ToolNames
     /\ inv[f].args # NoArguments
     /\ RequiredMissing(inv[f])) =>
      /\ inv[f].pc = "done"
      /\ inv[f].outcome.kind = "error"
      /\ inv[f].outcome.err.code = "InvalidParams"
      /\ inv[f].reqs = <<>>
      /\ inv[f].checks = 0

\* the last fetch of the invocation of a flow failed for good: it was answered
\* with a non-success response, or it was rejected and is not tried again
FetchFailed(fl) ==
  /\ fl.tool \in ToolNames
  /\ \/ fl.last.k = "resolve" /\ ~ fl.last.resp.ok
     \/ fl.last.k = "reject" /\ ~ RetriesOn(fl.lastRetries, fl.last.err)

\* C18: when a fetch of the aggregation (search, answers or comments) fails
\* for good, the tool call ends with an error that carries that failure and
\* with no result, whatever was composed before.
C18_AggregationAllOrNothing ==
  \A f \in Flows :
    (/\ inv[f].tool \in ReadTools \cup {"post_question"}
     /\ FetchFailed(inv[f])
     /\ ~ SentPost(inv[f])) =>
      /\ inv[f].pc = "done"
      /\ inv[f].outcome.kind = "error"
      /\ inv[f].outcome.results = <<>>
      /\ inv[f].outcome.text = ""
      /\ inv[f].last.k = "resolve" => inv[f].outcome.err.api = inv[f].last.resp.api
      /\ inv[f].last.k = "reject" => inv[f].outcome.err.cause = inv[f].last.err

\* C18 witness: a search composed a result and a later fetch of answers was
\* rejected: the call ended with the error and without the composed result.
C18_Witness ==
  /\ inv[1].tool \in ReadTools
  /\ Len(inv[1].results) > 0
  /\ inv[1].reqs[Len(inv[1].reqs)].site = "answers"
  /\ inv[1].last.k = "reject"
  /\ inv[1].pc = "done"
  /\ inv[1].outcome.kind = "error"
  /\ inv[1].outcome.results = <<>>

\* C19: every failure inside a tool invocation ends the invocation with a
\* typed error (an McpError): a fetch that failed for good is not swallowed,
\* and no error leaves the handler as it was caught.
C19_FailuresAreTyped ==
  \A f \in Flows :
    inv[f].tool \in ToolNames =>
      /\ FetchFailed(inv[f]) => (inv[f].pc = "done" /\ inv[f].outcome.kind = "error")
      /\ (inv[f].pc = "done" /\ inv[f].outcome.kind = "error") =>
           inv[f].outcome.err.type = "McpError"

\* C20: a fetch answered with a non-success response that carries the error
\* payload of the API ends the invocation, without another attempt, with an
\* error that quotes the error_message and the error_id of the payload.
C20_RemoteErrorVerbatim ==
  \A f \in Flows :
    (/\ inv[f].tool \in ToolNames
     /\ inv[f].last.k = "resolve"
     /\ ~ inv[f].last.resp.ok) =>
      /\ inv[f].pc = "done"
      /\ inv[f].outcome.kind = "error"
      /\ inv[f].outcome.err.type = "McpError"
      /\ inv[f].outcome.err.api = inv[f].last.resp.api
      /\ inv[f].outcome.err.api.error_message # ""
      /\ inv[f].attempts = 1 + inv[f].remoteWaits

\* C20 witness: the POST of a write tool was answered with status 400 and the
\* error of the invocation quotes the payload of that response.
C20_Witness ==
  /\ inv[1].tool \in WriteTools
  /\ SentPost(inv[1])
  /\ inv[1].last.k = "resolve"
  /\ inv[1].last.resp.status = 400
  /\ inv[1].pc = "done"
  /\ inv[1].outcome.err.api = [error_id |-> 400, error_message |-> "bad_parameter"]

\* the answers of all results of a sequence, counted
RECURSIVE SumAnswers(_)
SumAnswers(results) ==
  IF results = <<>> THEN 0
  ELSE Len(Head(results).answers) + SumAnswers(Tail(results))

\* the requests of a flow sent from one of the given call sites, counted
CountSite(fl, sites) == Cardinality({i \in 1..Len(fl.reqs) : fl.reqs[i].site \in sites})

\* a read tool returned its results, with comments, and no call was retried
CompletedWithComments(fl) ==
  /\ fl.tool \in ReadTools
  /\ fl.pc = "done"
  /\ fl.outcome.kind = "result"
  /\ fl.opts.includeComments
  /\ fl.rejects429 = 0

\* C21 as stated: with include_comments the aggregator issues 1 search call,
\* one answers call per answer, one comments call per question and one
\* comments call per answer.
C21_CallsPerAnswer ==
  \A f \in Flows :
    CompletedWithComments(inv[f]) =>
      Len(inv[f].reqs) = 1 + SumAnswers(inv[f].outcome.results)
                           + Len(inv[f].outcome.results)
                           + SumAnswers(inv[f].outcome.results)

\* C21 amended: with include_comments the aggregator issues 1 search call,
\* one answers call per question of the result set, one comments call per
\* question and one comments call per answer: 1 + N + N + (sum of A_i) calls.
C21_CallsPerQuestion ==
  \A f \in Flows :
    CompletedWithComments(inv[f]) =>
      /\ CountSite(inv[f], {"search", "tagsearch"}) = 1
      /\ CountSite(inv[f], {"answers"}) = Len(inv[f].outcome.results)
      /\ CountSite(inv[f], {"qcomments"}) = Len(inv[f].outcome.results)
      /\ CountSite(inv[f], {"acomments"}) = SumAnswers(inv[f].outcome.results)
      /\ Len(inv[f].reqs) = 1 + 2 * Len(inv[f].outcome.results)
                              + SumAnswers(inv[f].outcome.results)

\* C21 witness: three questions with two, one and no answers were aggregated
\* with their comments.
C21_Witness ==
  /\ CompletedWithComments(inv[1])
  /\ Len(inv[1].outcome.results) = 3
  /\ SumAnswers(inv[1].outcome.results) = 3
  /\ Len(inv[1].outcome.results[1].answers) = 2
  /\ Len(inv[1].reqs) = 10

\* the ids of the answers of a result
AnswerIds(result) == {result.answers[i].answer_id : i \in 1..Len(result.answers)}

\* C22: in every result composed with include_comments the answer mapping of
\* the comments bundle has an entry for each answer of the result and for no
\* other id: A_i entries for a question with A_i answers.
C22_CommentsEntryPerAnswer ==
  \A f \in Flows :
    \A i \in 1..Len(inv[f].results) :
      inv[f].results[i].hasComments =>
        /\ DOMAIN inv[f].results[i].comments.answers = AnswerIds(inv[f].results[i])
        /\ Cardinality(DOMAIN inv[f].results[i].comments.answers) =
             Len(inv[f].results[i].answers)
        /\ \A id \in AnswerIds(inv[f].results[i]) :
             inv[f].results[i].comments.answers[id] \in {CommentItems(id), <<>>}

\* C22 witness: a result with two answers, one of them with comments and one
\* with an empty list of comments, was returned.
C22_Witness ==
  /\ CompletedWithComments(inv[1])
  /\ \E i \in 1..Len(inv[1].outcome.results) :
       /\ Len(inv[1].outcome.results[i].answers) = 2
       /\ inv[1].outcome.results[i].comments.answers[11] # <<>>
       /\ inv[1].outcome.results[i].comments.answers[12] = <<>>

\* the questions of a list that the score filter of the aggregation keeps
KeptQuestions(fl) == SelectSeq(fl.items, LAMBDA q : ~ Skipped(q, fl.opts))

\* C23: the results a read tool returns are the questions of the search
\* response that the score filter keeps, in the order of the response, each
\* once and each with the answers fetched for it (the items of the response
\* to its answers call, or none when the response has no items).
C23_ResultsInSearchOrder ==
  \A f \in Flows :
    (/\ inv[f].tool \in ReadTools
     /\ inv[f].pc = "done"
     /\ inv[f].outcome.kind = "result") =>
      /\ Len(inv[f].outcome.results) = Len(KeptQuestions(inv[f]))
      /\ \A i \in 1..Len(inv[f].outcome.results) :
           /\ inv[f].outcome.results[i].question = KeptQuestions(inv[f])[i]
           /\ inv[f].outcome.results[i].answers \in
                {AnswerItems(KeptQuestions(inv[f])[i].question_id), <<>>}

\* C23 witness: of three questions the last was filtered out and the other
\* two were returned in the order of the search response.
C23_Witness ==
  /\ inv[1].tool \in ReadTools
  /\ inv[1].pc = "done"
  /\ inv[1].outcome.kind = "result"
  /\ Len(inv[1].items) = 3
  /\ Len(inv[1].outcome.results) = 2
  /\ inv[1].outcome.results[1].question = inv[1].items[1]
  /\ inv[1].outcome.results[2].question = inv[1].items[2]

\* C24: whenever min_score is set, to 0 as to any other value, no result has
\* a question of a score below min_score and no answers or comments are
\* fetched for such a question.
C24_MinScoreFiltersWhenSet ==
  \A f \in Flows :
    (inv[f].tool \in ToolNames /\ inv[f].opts.minScore.set) =>
      /\ \A i \in 1..Len(inv[f].results) :
           inv[f].results[i].question.score >= inv[f].opts.minScore.v
      /\ \A i \in 1..Len(inv[f].reqs) :
           inv[f].reqs[i].site \in {"answers", "qcomments"} =>
             \A q \in QuestionById(inv[f].reqs[i].target) :
               q.score >= inv[f].opts.minScore.v

\* the tokens of the text "[]"
EmptyArrayText == <<Tok("[", "", 0), Tok("]", "", 0)>>

\* C25: formatResponse of the empty sequence of results is the text "[]" in
\* json mode (the default mode) and the empty text in markdown mode.
C25_EmptyResultsText ==
  \A f \in Flows :
    (inv[f].tool = "formatResponse" /\ inv[f].results = <<>>) =>
      /\ inv[f].format \in {"absent", "json"} =>
           /\ inv[f].body.kind = "json"
           /\ inv[f].body.tokens = EmptyArrayText
      /\ inv[f].format = "markdown" =>
           /\ inv[f].body.kind = "markdown"
           /\ inv[f].body.lines = <<>>
           /\ inv[f].body.tokens = <<>>

\* C25 witness: the empty sequence was formatted in markdown mode.
C25_Witness ==
  /\ inv[1].tool = "formatResponse"
  /\ inv[1].pc = "formatted"
  /\ inv[1].results = <<>>
  /\ inv[1].format = "markdown"
  /\ inv[1].body.lines = <<>>

\* the property of a key of a parsed object, NoValue when it has none
HasKey(node, k) == \E i \in 1..Len(node.kids) : node.kids[i].k = k

Get(node, k) ==
  IF HasKey(node, k)
    THEN node.kids[CHOOSE i \in 1..Len(node.kids) : node.kids[i].k = k].v
    ELSE NoValue

\* the ids of the answers the remote service holds
KnownAnswerIds ==
  UNION {{AnswerItems(q.question_id)[i].answer_id :
            i \in 1..Len(AnswerItems(q.question_id))} : q \in RemoteQuestions}

\* a parsed value read as a question, an answer, a comment, a comments
\* bundle and a result
AsQuestion(node) ==
  [question_id |-> Get(node, "question_id").n, title |-> Get(node, "title").s,
   score |-> Get(node, "score").n, answer_count |-> Get(node, "answer_count").n,
   accepted_answer_id |-> Get(node, "accepted_answer_id").n]

AsAnswer(node) ==
  [answer_id |-> Get(node, "answer_id").n, question_id |-> Get(node, "question_id").n,
   score |-> Get(node, "score").n, is_accepted |-> Get(node, "is_accepted").s = "true"]

AsComment(node) ==
  [comment_id |-> Get(node, "comment_id").n, post_id |-> Get(node, "post_id").n,
   score |-> Get(node, "score").n]

AsComments(node) == [i \in 1..Len(node.kids) |-> AsComment(node.kids[i].v)]

AsBundle(node) ==
  [question |-> AsComments(Get(node, "question")),
   answers |-> [id \in {x \in KnownAnswerIds : HasKey(Get(node, "answers"), ToString(x))} |->
                  AsComments(Get(Get(node, "answers"), ToString(id)))]]

AsResult(node) ==
  [question |-> AsQuestion(Get(node, "question")),
   answers |-> [i \in 1..Len(Get(node, "answers").kids) |->
                  AsAnswer(Get(node, "answers").kids[i].v)],
   hasComments |-> HasKey(node, "comments"),
   comments |-> AsBundle(Get(node, "comments"))]

\* C26: the text formatResponse returns in json mode, parsed, is an array as
\* long as the sequence of results whose i-th element has the fields of the
\* i-th result, with their values: question, answers and comments bundle.
C26_JsonRoundTrip ==
  \A f \in Flows :
    (inv[f].tool = "formatResponse" /\ inv[f].pc = "parsed") =>
      /\ inv[f].parsed.t = "arr"
      /\ Len(inv[f].parsed.kids) = Len(inv[f].results)
      /\ \A i \in 1..Len(inv[f].results) :
           /\ AsResult(inv[f].parsed.kids[i].v).question = inv[f].results[i].question
           /\ AsResult(inv[f].parsed.kids[i].v).answers = inv[f].results[i].answers
           /\ AsResult(inv[f].parsed.kids[i].v).hasComments = inv[f].results[i].hasComments
           /\ AsResult(inv[f].parsed.kids[i].v).comments.question =
                inv[f].results[i].comments.question
           /\ DOMAIN AsResult(inv[f].parsed.kids[i].v).comments.answers =
                DOMAIN inv[f].results[i].comments.answers
           /\ \A id \in DOMAIN inv[f].results[i].comments.answers :
                AsResult(inv[f].parsed.kids[i].v).comments.answers[id] =
                  inv[f].results[i].comments.answers[id]

\* C26 witness: two results were formatted and parsed, the first with an
\* accepted answer and with comments on the question and on an answer.
C26_Witness ==
  /\ inv[1].tool = "formatResponse"
  /\ inv[1].pc = "parsed"
  /\ Len(inv[1].results) = 2
  /\ inv[1].results[1].hasComments
  /\ Len(inv[1].results[1].answers) = 2
  /\ inv[1].results[1].comments.answers[11] # <<>>
  /\ ~ inv[1].results[2].hasComments

\* the answers of all results of a sequence, in order
RECURSIVE AllAnswers(_)
AllAnswers(results) ==
  IF results = <<>> THEN <<>>
  ELSE Head(results).answers \o AllAnswers(Tail(results))

\* the lines of a markdown text that are headings of questions and of answers
TitleLines(lines) == SelectSeq(lines, LAMBDA l : l.kind = "h1")

AnswerHeadings(lines) ==
  SelectSeq(lines, LAMBDA l : l.kind = "h3" /\ l.text = "Answer (Score)")

\* C27: the markdown text has one heading per result with the title of its
\* question, in order, and one heading per answer, in order, with the score
\* of the answer and with the accepted marker exactly when is_accepted is
\* true; two line ends separate the text of a result from the next.
C27_MarkdownHeadings ==
  \A f \in Flows :
    (inv[f].tool = "formatResponse" /\ inv[f].format = "markdown") =>
      /\ Len(TitleLines(inv[f].body.lines)) = Len(inv[f].results)
      /\ \A i \in 1..Len(inv[f].results) :
           TitleLines(inv[f].body.lines)[i].text = inv[f].results[i].question.title
      /\ Len(AnswerHeadings(inv[f].body.lines)) = Len(AllAnswers(inv[f].results))
      /\ \A i \in 1..Len(AllAnswers(inv[f].results)) :
           /\ AnswerHeadings(inv[f].body.lines)[i].n = AllAnswers(inv[f].results)[i].score
           /\ AnswerHeadings(inv[f].body.lines)[i].marked =
                AllAnswers(inv[f].results)[i].is_accepted
      /\ \A p \in 2..Len(inv[f].body.lines) :
           inv[f].body.lines[p].kind = "h1" =>
             /\ p > 3
             /\ inv[f].body.lines[p - 1] = Blank
             /\ inv[f].body.lines[p - 2] = Blank
             /\ inv[f].body.lines[p - 3] = Blank

\* C27 witness: a result titled "How to test?" with an accepted answer of
\* score 5 and an answer that is not accepted, followed by a second result.
C27_Witness ==
  /\ inv[1].tool = "formatResponse"
  /\ inv[1].format = "markdown"
  /\ Len(inv[1].results) = 2
  /\ inv[1].body.lines[1] = Line("h1", "How to test?", 0, 0, FALSE)
  /\ \E p \in 1..Len(inv[1].body.lines) :
       inv[1].body.lines[p] = Line("h3", "Answer (Score)", 5, 0, TRUE)
  /\ \E p \in 1..Len(inv[1].body.lines) :
       inv[1].body.lines[p] = Line("h3", "Answer (Score)", 2, 0, FALSE)


\* the tag list search_by_error is to pass: the lower-cased language when it is
\* given, then the technologies in their order; no list when that is empty
ExpectedErrorTags(args) ==
  LET language == IF args.language = "" THEN <<>> ELSE <<LowerCase(args.language)>>
      list == IF args.technologies.kind = "array"
                THEN language \o args.technologies.list ELSE language
  IN IF list = <<>> THEN NoTags ELSE TagList(list)

\* C28: search_by_error calls searchStackOverflow with the error message as
\* query, with the tag list made of the lower-cased language (when given)
\* followed by the technologies in their given order, with no tag list when
\* that list is empty, and with minScore, limit and includeComments as given
C28_SearchByErrorCall ==
  \A f \in Flows :
    (/\ inv[f].tool = "search_by_error" /\ inv[f].args # NoArguments
     /\ inv[f].args.errorMessage # "")
    => /\ inv[f].searched
       /\ inv[f].query = inv[f].args.errorMessage
       /\ inv[f].tags = ExpectedErrorTags(inv[f].args)
       /\ inv[f].opts = [minScore |-> inv[f].args.minScore, limit |-> inv[f].args.limit,
                         includeComments |-> inv[f].args.includeComments]

\* search_by_error given a language and two technologies has sent its search
C28_Witness ==
  /\ inv[1].tool = "search_by_error" /\ inv[1].args # NoArguments
  /\ inv[1].args.language = "JS"
  /\ inv[1].args.technologies = [kind |-> "array", list |-> <<"React", "Jest">>]
  /\ inv[1].args.limit = 5 /\ inv[1].args.minScore = [set |-> TRUE, v |-> 2]
  /\ inv[1].searched
  /\ inv[1].tags = TagList(<<"js", "React", "Jest">>)
  /\ Len(inv[1].reqs) = 1 /\ inv[1].reqs[1].site = "search"

\* C29: analyze_stack_trace calls searchStackOverflow with the first line of
\* the stack trace as query, the lower-cased language as the only tag and
\* minScore 0, with limit and includeComments as given
C29_StackTraceCall ==
  \A f \in Flows :
    (/\ inv[f].tool = "analyze_stack_trace" /\ inv[f].args # NoArguments
     /\ inv[f].args.stackTrace # <<>> /\ inv[f].args.language # "")
    => /\ inv[f].searched
       /\ inv[f].query = Head(inv[f].args.stackTrace)
       /\ inv[f].tags = TagList(<<LowerCase(inv[f].args.language)>>)
       /\ inv[f].opts = [minScore |-> [set |-> TRUE, v |-> 0],
                         limit |-> inv[f].args.limit,
                         includeComments |-> inv[f].args.includeComments]

\* analyze_stack_trace given a trace of two lines has sent its search
C29_Witness ==
  /\ inv[1].tool = "analyze_stack_trace" /\ inv[1].args # NoArguments
  /\ Len(inv[1].args.stackTrace) = 2 /\ inv[1].args.language = "JS"
  /\ inv[1].args.limit = 5 /\ inv[1].args.includeComments
  /\ inv[1].searched
  /\ inv[1].query = "Error: boom" /\ inv[1].tags = TagList(<<"js">>)
  /\ Len(inv[1].reqs) = 1 /\ inv[1].reqs[1].site = "search"

\* C30: search_by_tags calls searchStackOverflow with an empty query, the
\* given tags and the given minScore, limit and includeComments, so that its
\* first request is the search request of searchStackOverflow
C30_SearchByTagsDelegates ==
  \A f \in Flows :
    (/\ inv[f].tool = "search_by_tags" /\ inv[f].args # NoArguments
     /\ inv[f].args.tagsKind = "array")
    => /\ inv[f].searched
       /\ inv[f].query = ""
       /\ inv[f].tags = TagList(inv[f].args.tags)
       /\ inv[f].opts = [minScore |-> inv[f].args.minScore, limit |-> inv[f].args.limit,
                         includeComments |-> inv[f].args.includeComments]
       /\ (inv[f].reqs # <<>> => inv[f].reqs[1].site = "search")


\* where the invocation of a write tool stands: Checking until
\* ensureWriteAccess() has returned, Permitted from then on until the POST
\* has settled
Stage(fl) ==
  IF fl.pc = "idle" THEN "Idle"
  ELSE IF fl.pc = "done" THEN "Ended"
  ELSE IF fl.site = "write" THEN "Permitted"
  ELSE "Checking"

\* the argument checks of the dispatcher and of the handler of a write tool
ArgumentChecksPass(fl) ==
  /\ fl.args # NoArguments
  /\ fl.tool = "post_question" =>
       /\ fl.args.title # "" /\ fl.args.body # "" /\ fl.args.errorSignature # ""
       /\ fl.args.tagsKind = "array"
       /\ fl.args.triedApproaches.kind = "array"
       /\ Len(fl.args.triedApproaches.list) >= 3
  /\ fl.tool = "post_solution" =>
       /\ fl.args.questionId # 0 /\ fl.args.body # ""
       /\ fl.args.confirmedResolved = "true"
       /\ fl.args.evidence.kind = "array" /\ Len(fl.args.evidence.list) > 0
  /\ fl.tool = "thumbs_up" =>
       fl.args.postId # 0 /\ fl.args.confirmedFixed = "true"
  /\ fl.tool = "comment_solution" =>
       fl.args.questionId # 0 /\ fl.args.body # ""

\* the check of the remote state of a write tool was made, by a read sent
\* before anything else, and passed; thumbs_up has none
StateCheckPass(fl) ==
  /\ fl.tool = "post_question" =>
       /\ fl.reqs # <<>> /\ fl.reqs[1].site = "search" /\ fl.reqs[1].method = "GET"
       /\ fl.searched /\ fl.qi > Len(fl.items) /\ fl.results = <<>>
  /\ fl.tool = "post_solution" =>
       /\ fl.reqs # <<>> /\ fl.reqs[1].site = "question" /\ fl.reqs[1].method = "GET"
       /\ \E q \in QuestionById(fl.args.questionId) :
            q.accepted_answer_id = 0 /\ q.answer_count = 0
  /\ fl.tool = "comment_solution" =>
       /\ fl.reqs # <<>> /\ fl.reqs[1].site = "question" /\ fl.reqs[1].method = "GET"
       /\ \E q \in QuestionById(fl.args.questionId) : q.accepted_answer_id = 0

\* every precondition check of the tool has passed in this invocation
AllChecksPass(fl) ==
  ArgumentChecksPass(fl) /\ StateCheckPass(fl) /\ apiKey /\ accessToken

\* the step sends a POST request of the flow
IssuesPost(a, b) ==
  /\ Len(b.reqs) = Len(a.reqs) + 1
  /\ b.reqs[Len(b.reqs)].method = "POST"

\* a step of the invocation of a write tool, from record a to record b
WriteStep(a, b) ==
  /\ Stage(a) = "Idle" => Stage(b) \in {"Idle", "Checking", "Permitted", "Ended"}
  /\ Stage(a) = "Checking" => Stage(b) \in {"Checking", "Permitted", "Ended"}
  /\ Stage(a) = "Permitted" => Stage(b) \in {"Permitted", "Ended"}
  /\ Stage(a) = "Ended" => b = a
  \* Permitted is entered only with every check passed
  /\ Stage(b) = "Permitted" => AllChecksPass(b)
  \* the mutating call is issued only when Permitted
  /\ IssuesPost(a, b) => (Stage(a) = "Permitted" /\ AllChecksPass(a))
  /\ (\E i \in 1..Len(b.reqs) : b.reqs[i].method = "POST") =>
       (IssuesPost(a, b) \/ \E i \in 1..Len(a.reqs) : a.reqs[i].method = "POST")
  \* Rejected: the invocation ends while Checking, with an error and no POST
  /\ (Stage(a) \in {"Idle", "Checking"} /\ Stage(b) = "Ended") =>
       /\ b.outcome.kind = "error"
       /\ \A i \in 1..Len(b.reqs) : b.reqs[i].method = "GET"
  \* Executed: the result is returned from Permitted, after the POST
  /\ (Stage(b) = "Ended" /\ b.outcome.kind = "result") =>
       /\ Stage(a) = "Permitted"
       /\ b.reqs[Len(b.reqs)].method = "POST"

\* C31: every invocation of a write tool goes from Checking to Permitted to
\* Executed, or from Checking to Rejected: the POST is issued only once the
\* argument checks, the check of the remote state and the credentials check
\* of the tool have all passed in that invocation, and an invocation that
\* ends while Checking ends with an error and has issued no POST
C31_CheckThenExecute ==
  [][\A f \in Flows :
       inv'[f].tool \in WriteTools => WriteStep(inv[f], inv'[f])]_vars

\* post_question went through its duplicate search, was permitted and posted
C31_Witness ==
  /\ inv[1].tool = "post_question"
  /\ inv[1].pc = "done" /\ inv[1].outcome.kind = "result"
  /\ Len(inv[1].reqs) = 2
  /\ inv[1].reqs[1].site = "search" /\ inv[1].reqs[2].method = "POST"
  /\ AllChecksPass(inv[1])


\* the write tools that read the remote state before they write
CheckingTools == {"post_question", "post_solution", "comment_solution"}

\* C32: when the read that a write tool makes of the remote state (the
\* duplicate search of post_question, the fetch of the question of
\* post_solution and comment_solution) fails for good, with a non-success
\* response or a transport error, the invocation has ended with an error and
\* without a POST; the POST is prepared only after a read that was answered
\* with a success response that has its items
C32_UnconfirmedNeverExecutes ==
  \A f \in Flows :
    inv[f].tool \in CheckingTools =>
      /\ (FetchFailed(inv[f]) /\ ~ SentPost(inv[f])) =>
           /\ inv[f].pc = "done"
           /\ inv[f].outcome.kind = "error"
      /\ (inv[f].site = "write" /\ ~ SentPost(inv[f])) =>
           /\ inv[f].last.k = "resolve"
           /\ inv[f].last.resp.ok
           /\ inv[f].last.resp.hasItems

\* the fetch of the question of post_solution was answered with a 429 signal,
\* tried again and then failed with a transport error: no POST was sent
C32_Witness ==
  /\ inv[1].tool = "post_solution"
  /\ Len(inv[1].reqs) = 2
  /\ inv[1].reqs[1].site = "question" /\ inv[1].reqs[2].site = "question"
  /\ inv[1].last = OpReject(NetworkError)
  /\ inv[1].pc = "done"
  /\ inv[1].outcome.err = RawError(NetworkError)
  /\ apiKey /\ accessToken


\* C33: with two invocations in progress whose steps interleave at every
\* await, the shared limiter grants at most 30 permits in any rolling
\* 60-second window (the permit granted 30 permits before any permit lies
\* outside the 60000 ms that end at it), a call that finds 30 permits in the
\* window is denied, and every request of either invocation was sent with a
\* permit of its own
C33_SharedLimiterHolds ==
  /\ \A i \in 1..Len(granted) :
        i > MAX_REQUESTS_PER_WINDOW =>
          granted[i] - granted[i - MAX_REQUESTS_PER_WINDOW] >= RATE_LIMIT_WINDOW_MS
  /\ lastCheck.kept >= MAX_REQUESTS_PER_WINDOW => ~ lastCheck.result
  /\ Len(requestTimestamps) <= MAX_REQUESTS_PER_WINDOW
  /\ inv[1].permits + inv[2].permits = TotalRequests
  /\ TotalRequests <= Len(granted)

\* the first invocation took the last permit of the window and is still in
\* progress; the second was denied, waited and was permitted once the
\* window had moved on
C33_Witness ==
  /\ inv[1].pc = "call" /\ inv[1].permits >= 1
  /\ inv[2].denials >= 1 /\ inv[2].permits >= 1
  /\ Len(granted) > MAX_REQUESTS_PER_WINDOW
  /\ \E i \in 1..Len(inv[1].reqs) : inv[1].reqs[i].at < inv[2].reqs[1].at

\* the invocations of post_solution for a question that have returned a result
Executed(id) ==
  {f \in Flows : /\ inv[f].tool = "post_solution" /\ inv[f].pc = "done"
                 /\ inv[f].outcome.kind = "result" /\ inv[f].args.questionId = id}

\* C34: with invocations of post_solution for the same question in progress
\* at the same time, a POST of an answer is issued only while the question
\* has no answer, those posted by other invocations included, and of the
\* invocations for a question that had no answer at most one returns a result
C34_OneAnswerPerQuestion ==
  [][\A f \in Flows :
       (inv'[f].tool = "post_solution" /\ inv'[f].args # NoArguments) =>
         /\ IssuesPost(inv[f], inv'[f]) =>
              \A i \in 1..Len(QuestionItems(inv[f].args.questionId)) :
                QuestionItems(inv[f].args.questionId)[i].answer_count = 0
         /\ Cardinality(Executed(inv[f].args.questionId)') <= 1]_vars

\* C39: no step of an invocation, whether it ends with a result, is rejected
\* or fails, changes the credentials; the record of timestamps changes only
\* by a call of checkRateLimit of an invocation that is about to send a
\* request; and a step of one invocation changes nothing of the other: what
\* an invocation fetched or composed is not there for the next one
C39_OnlyLimiterIsShared ==
  [][/\ apiKey' = apiKey
     /\ accessToken' = accessToken
     /\ requestTimestamps' # requestTimestamps =>
          /\ \E f \in Flows : inv[f].pc = "call" /\ inv[f].phase = "check"
                               /\ inv'[f].checks = inv[f].checks + 1
          /\ \/ requestTimestamps' = FilterWindow(requestTimestamps, now)
             \/ requestTimestamps' = Append(FilterWindow(requestTimestamps, now), now)
     /\ \A f, g \in Flows : (f # g /\ inv'[f] # inv[f]) => inv'[g] = inv[g]
     /\ \A f \in Flows :
          (inv[f].pc = "idle" /\ inv'[f].pc # "idle") =>
            /\ inv'[f].results = <<>> /\ inv'[f].items = <<>>
            /\ inv'[f].answers = <<>> /\ inv'[f].last = NoSettled]_vars

\* one invocation posted its answer and another, begun after it had ended,
\* was answered with the question as it then was and refused
C39_Witness ==
  /\ apiKey /\ accessToken
  /\ inv[1].tool = "post_solution" /\ inv[1].pc = "done"
  /\ inv[1].outcome.kind = "result"
  /\ inv[2].tool = "post_solution" /\ inv[2].pc = "done"
  /\ inv[1].args # NoArguments /\ inv[2].args # NoArguments
  /\ inv[2].args.questionId = inv[1].args.questionId
  /\ inv[2].outcome.kind = "error"
  /\ inv[2].reqs[1].at >= inv[1].reqs[Len(inv[1].reqs)].at
  /\ QuestionReturned(inv[2])
  /\ \E q \in FetchedQuestion(inv[2]) : q.answer_count = 1


\* C36: when the limiter denies an invocation of withRateLimit k times and
\* then permits it, the limiter was consulted k+1 times, each denial was
\* followed by a wait of 2000 ms before the next consultation, the operation
\* was started once, on the permit and never on a denial, and the value the
\* operation resolves with is returned
C36_DeniedThenPermitted ==
  \A f \in Flows :
    inv[f].tool = "op" =>
      /\ inv[f].checks = inv[f].denials + inv[f].permits
      /\ inv[f].attempts = inv[f].permits
      /\ inv[f].phase = "sleepLocal" =>
           /\ inv[f].localWaits = inv[f].denials - 1
           /\ inv[f].wakeAt = now + RETRY_AFTER_MS
           /\ ~ lastCheck.result
      /\ (inv[f].phase = "check" /\ inv[f].denials > 0) =>
           /\ inv[f].localWaits + inv[f].remoteWaits >= inv[f].denials
           /\ now >= inv[f].wakeAt
      /\ (inv[f].phase = "inflight" /\ inv[f].attempts = 1) =>
           /\ inv[f].checks = inv[f].denials + 1
           /\ inv[f].localWaits = inv[f].denials
           /\ lastCheck.result
      /\ (inv[f].pc = "done" /\ inv[f].script[1] = OpResolve) =>
           /\ inv[f].checks = inv[f].denials + 1
           /\ inv[f].localWaits = inv[f].denials
           /\ inv[f].attempts = 1
           /\ inv[f].outcome.kind = "result"
           /\ inv[f].outcome.text = OpResolve.value

\* the limiter denied twice and then permitted: three consultations, two
\* waits, one run of the operation, its value returned
C36_Witness ==
  /\ inv[1].tool = "op" /\ inv[1].pc = "done"
  /\ inv[1].denials = 2 /\ inv[1].checks = 3 /\ inv[1].localWaits = 2
  /\ inv[1].attempts = 1
  /\ inv[1].outcome.text = OpResolve.value
  /\ now = RATE_LIMIT_WINDOW_MS + 1

\* the record new is the record old less some of its oldest entries, all of
\* them at least a window old at instant t
OnlyExpiredRemoved(old, new, t) ==
  /\ Len(new) <= Len(old)
  /\ \A i \in 1..Len(new) : new[i] = old[i + Len(old) - Len(new)]
  /\ \A i \in 1..(Len(old) - Len(new)) : t - old[i] >= RATE_LIMIT_WINDOW_MS

\* C37: a call of checkRateLimit that denies leaves of the record what was
\* there, less expired entries: it adds nothing, so that the instant at which
\* the oldest entry expires is not put off; a call that permits adds one
\* entry, the current instant, at the end
C37_DenialRecordsNothing ==
  [][advances' = advances =>
       IF lastCheck'.result
         THEN /\ requestTimestamps' # <<>>
              /\ requestTimestamps'[Len(requestTimestamps')] = now
              /\ OnlyExpiredRemoved(requestTimestamps,
                                    SubSeq(requestTimestamps', 1,
                                           Len(requestTimestamps') - 1), now)
         ELSE /\ OnlyExpiredRemoved(requestTimestamps, requestTimestamps', now)
              /\ Len(requestTimestamps') = MAX_REQUESTS_PER_WINDOW]_vars

\* calls were denied one millisecond after the thirtieth permit, and the
\* record still ends with that permit
C37_Witness ==
  /\ ~ lastCheck.result
  /\ Len(requestTimestamps) = MAX_REQUESTS_PER_WINDOW
  /\ requestTimestamps[1] = 0
  /\ requestTimestamps[MAX_REQUESTS_PER_WINDOW] = 0
  /\ now = 1

\* the entries of a record that are at most a window old at instant t
AtMostWindowOld(stamps, t) ==
  {i \in 1..Len(stamps) : t - stamps[i] <= RATE_LIMIT_WINDOW_MS}

\* C38: a call of checkRateLimit counts the entries that are at most 60000 ms
\* old, those exactly 60000 ms old among them, denies when they are 30 or
\* more, and leaves no entry in the record that is more than 60000 ms old
C38_KeepsUpToWindow ==
  [][advances' = advances =>
       /\ lastCheck'.kept = Cardinality(AtMostWindowOld(requestTimestamps, now))
       /\ Cardinality(AtMostWindowOld(requestTimestamps, now)) >= MAX_REQUESTS_PER_WINDOW
            => ~ lastCheck'.result
       /\ \A i \in 1..Len(requestTimestamps') :
            now - requestTimestamps'[i] <= RATE_LIMIT_WINDOW_MS]_vars

\* C40: when include_comments is not set the aggregation sends no request
\* for comments and none of its results carries a comments bundle; when it
\* has returned and no call was retried it has sent one search request and
\* one answers request for each question it kept
C40_NoCommentsUnlessAsked ==
  \A f \in Flows :
    (/\ inv[f].tool \in ReadTools \cup {"post_question"}
     /\ inv[f].args # NoArguments
     /\ ~ inv[f].opts.includeComments) =>
      /\ CountSite(inv[f], {"qcomments", "acomments"}) = 0
      /\ \A i \in 1..Len(inv[f].results) : ~ inv[f].results[i].hasComments
      /\ \A i \in 1..Len(inv[f].outcome.results) :
           /\ ~ inv[f].outcome.results[i].hasComments
           /\ inv[f].outcome.results[i].comments = [question |-> <<>>, answers |-> <<>>]
      /\ (/\ inv[f].tool \in ReadTools /\ inv[f].pc = "done"
          /\ inv[f].outcome.kind = "result" /\ inv[f].rejects429 = 0) =>
           /\ CountSite(inv[f], {"search", "tagsearch"}) = 1
           /\ CountSite(inv[f], {"answers"}) = Len(KeptQuestions(inv[f]))
           /\ Len(inv[f].reqs) = 1 + Len(KeptQuestions(inv[f]))

\* a search without comments returned three results after four requests
C40_Witness ==
  /\ inv[1].tool = "search_by_error" /\ inv[1].pc = "done"
  /\ ~ inv[1].opts.includeComments
  /\ Len(inv[1].outcome.results) = 3
  /\ Len(inv[1].reqs) = 4
  /\ inv[1].reqs[4].site = "answers"
  /\ inv[1].rejects429 = 0



\* no loop of calls is running
NoLoop == \A f \in Flows : inv[f].tool # "loop"

\* C35: an invocation of withRateLimit that the limiter denied is permitted
\* in the end and runs its operation, given that time passes and its timer
\* fires, also while other invocations go on making calls through the limiter
C35_DeniedIsPermittedInTheEnd ==
  \A f \in Flows :
    (inv[f].phase = "sleepLocal") ~> (inv[f].phase = "inflight")

\* the part of C35 that holds: while every other invocation makes one call
\* only, a denied invocation is permitted in the end
DeniedIsPermittedWithoutLoop ==
  ([]NoLoop) => C35_DeniedIsPermittedInTheEnd

====
